---------------------------- MODULE Spec2Model ----------------------------
(***************************************************************************)
(* Model of the tool-augmented conversation orchestrator:                  *)
(*   src/app.py                     process_message, clear_conversation     *)
(*   src/src/azure_openai_client.py AzureOpenAIClient                       *)
(*   src/src/mcp_client.py          MCPToolRegistry, CalculatorTools        *)
(*                                                                         *)
(* One user turn is split at its two suspension points, the awaits of      *)
(* client.chat.completions.create (azure_openai_client.py:86 and :192).    *)
(* Everything the code does between two awaits is one action.              *)
(***************************************************************************)
EXTENDS Integers, Sequences, FiniteSets, TLC

VARIABLES
    conversation_history,  \* AzureOpenAIClient.conversation_history
    max_history,           \* AzureOpenAIClient.max_history
    available_tools,       \* MCPToolRegistry.available_tools
    history,               \* the chatbot list process_message receives and returns
    pc,                    \* position of the user turn: idle, call1, call2
    message,               \* process_message's message argument (last call)
    use_tools,             \* process_message's use_tools argument (last call)
    messages,              \* the snapshot handed to the backend call in flight
    tools,                 \* the tools argument of the backend call in flight
    backend_calls,         \* backend calls issued by the current user turn
    tool_calls,            \* tool calls carried by the turn's first response
    dispatched,            \* ids of the calls whose tool lookup ran, in order
    pre_history,           \* conversation_history when chat was entered
    chat_result,           \* what ai_client.chat returned to process_message
    response,              \* the backend response the turn received last
    clear_count,           \* what clear_history returned last
    event,                 \* the step the program took last
    thread,                \* concurrent submit_message calls: position, snapshot
    owner,                 \* who appended each turn of conversation_history
    dispatch_call,         \* a tool call handed to the dispatch loop on its own
    invocation,            \* how the loop invoked the implementation for it
    registration,          \* a registry under construction: entries, result
    server_history,        \* azure_openai_server: conversation_history, by id
    server_task,           \* azure_openai_server: the call_tool calls in flight
    server_result,         \* azure_openai_server: the text each task's call
                           \* returned, empty while a call is in flight
    calculation_history,   \* calculator_server: calculation_history
    calc_recorded,         \* the calculations handed to add_to_history since
                           \* the last clear_history, in order
    calc_result,           \* calculator_server: what the last call_tool gave
    mcp_servers,           \* MCPClient.servers, in the order of insertion
    mcp_processes,         \* MCPClient.processes
    mcp_event,             \* the MCPClient method called last
    fs_filename,           \* FileSystemTools.read_file: its filename argument
    fs_result              \* FileSystemTools.read_file: the text it returned
                           \* and the file it read

vars == <<conversation_history, max_history, available_tools, history, pc,
          message, use_tools, messages, tools, backend_calls, tool_calls,
          dispatched, pre_history, chat_result, response, clear_count,
          event, thread, owner, dispatch_call, invocation, registration,
          server_history, server_task, server_result,
          calculation_history, calc_recorded, calc_result,
          mcp_servers, mcp_processes, mcp_event, fs_filename, fs_result>>

\* The variables of the concurrent calls, and those of the single call.
conc == <<thread, owner>>

\* The variables of the dispatcher and of the registry taken on their own.
server == <<server_history, server_task, server_result>>

\* The variables of the calculator server.
calc == <<calculation_history, calc_recorded, calc_result>>

\* The variables of the MCP client.
mcp == <<mcp_servers, mcp_processes, mcp_event>>

\* The variables of the file tools.
files == <<fs_filename, fs_result>>

apart == <<dispatch_call, invocation, registration, server, calc, mcp,
           files>>

single == <<history, pc, message, use_tools, messages, tools, backend_calls,
            tool_calls, dispatched, pre_history, chat_result, response,
            clear_count, event>>

(***************************************************************************)
(* Bounds of the model.                                                    *)
(***************************************************************************)
\* Longest conversation_history explored, and most tool calls in one response.
MaxStored == 5
MaxCalls == 2
MaxHistoryCfg == 1

(***************************************************************************)
(* Inputs.  A message is a sequence of characters, so that str.strip is     *)
(* computed and not assumed.                                               *)
(***************************************************************************)
Whitespace == {" ", "\t", "\n"}

UserInputs == {<<>>, <<"\t", " ">>, <<" ", "h">>}

BackendTexts == {"answer"}

BackendErrors == {"Connection error."}

\* Python str of a character sequence.
RECURSIVE Str(_)
Str(cs) == IF cs = <<>> THEN "" ELSE Head(cs) \o Str(Tail(cs))

RECURSIVE lstrip(_)
lstrip(cs) ==
    IF cs # <<>> /\ Head(cs) \in Whitespace THEN lstrip(Tail(cs)) ELSE cs

RECURSIVE rstrip(_)
rstrip(cs) ==
    IF cs # <<>> /\ cs[Len(cs)] \in Whitespace
    THEN rstrip(SubSeq(cs, 1, Len(cs) - 1))
    ELSE cs

\* A check for the empty string alone (no stripping).
stripOnlyEmpty(cs) == cs

\* str.strip(): leading and trailing whitespace removed.
strip(cs) == rstrip(lstrip(cs))

(***************************************************************************)
(* Turns of the conversation store.  A Python dict without a key is a       *)
(* record whose field is empty: tool_calls = <<>> is "no tool_calls key"    *)
(* (the code only stores the key with a non-empty list, line 98).          *)
(***************************************************************************)
UserTurn(content) ==
    [role |-> "user", content |-> content, tool_calls |-> <<>>,
     tool_call_id |-> "", name |-> ""]

AssistantTurn(content, calls) ==
    [role |-> "assistant", content |-> content, tool_calls |-> calls,
     tool_call_id |-> "", name |-> ""]

ToolTurn(id, fname, content) ==
    [role |-> "tool", content |-> content, tool_calls |-> <<>>,
     tool_call_id |-> id, name |-> fname]

SystemMessage ==
    [role |-> "system", content |-> "You are a helpful AI assistant with access to various tools.",
     tool_calls |-> <<>>, tool_call_id |-> "", name |-> ""]

(***************************************************************************)
(* Tool registry (mcp_client.py).  Insertion order of the dict is kept in   *)
(* ToolOrder.                                                              *)
(***************************************************************************)
ToolOrder ==
    <<"list_files", "read_file", "search_files", "add", "subtract",
      "multiply", "divide", "factorial", "convert_temperature",
      "convert_distance">>

\* MCPToolRegistry._register_tools: name -> description and declared parameters.
RegisterTools ==
    [n \in {ToolOrder[i] : i \in 1..Len(ToolOrder)} |->
       CASE n = "list_files" ->
              [description |-> "List files in the test directory",
               parameters |-> <<"pattern (optional)">>]
         [] n = "read_file" ->
              [description |-> "Read contents of a file",
               parameters |-> <<"filename">>]
         [] n = "search_files" ->
              [description |-> "Search for text in files",
               parameters |-> <<"query">>]
         [] n = "add" ->
              [description |-> "Add numbers", parameters |-> <<"*numbers">>]
         [] n = "subtract" ->
              [description |-> "Subtract two numbers",
               parameters |-> <<"a", "b">>]
         [] n = "multiply" ->
              [description |-> "Multiply numbers",
               parameters |-> <<"*numbers">>]
         [] n = "divide" ->
              [description |-> "Divide two numbers",
               parameters |-> <<"a", "b", "precision (optional)">>]
         [] n = "factorial" ->
              [description |-> "Calculate factorial",
               parameters |-> <<"n">>]
         [] n = "convert_temperature" ->
              [description |-> "Convert temperature (C, F, K)",
               parameters |-> <<"value", "from_unit", "to_unit">>]
         [] n = "convert_distance" ->
              [description |-> "Convert distance (m, ft, mi, km)",
               parameters |-> <<"value", "from_unit", "to_unit">>]]

\* MCPToolRegistry.get_tool: dict.get, None (found = FALSE) for an absent name.
get_tool(registry, tool_name) ==
    IF tool_name \in DOMAIN registry
    THEN [found |-> TRUE, function |-> tool_name]
    ELSE [found |-> FALSE, function |-> ""]

(***************************************************************************)
(* Construction of a registry (MCPToolRegistry.__init__, _register_tools):  *)
(* the tools are the entries of one dict display, which Python evaluates    *)
(* entry by entry, a later entry of a name replacing the earlier one, and   *)
(* which raises nothing.  entries are <<name, description>> pairs.          *)
(***************************************************************************)
MaxEntries == 3

EntryChoices ==
    {"add", "divide"} \X {"Add numbers", "Divide two numbers"}

EntryLists == UNION {[1..n -> EntryChoices] : n \in 0..MaxEntries}

dict_display(entries) ==
    [n \in {entries[i][1] : i \in 1..Len(entries)} |->
       LET last == CHOOSE i \in 1..Len(entries) :
                     /\ entries[i][1] = n
                     /\ \A j \in (i + 1)..Len(entries) : entries[j][1] # n
       IN  [description |-> entries[last][2]]]

Registration(phase, entries, tools_built, error) ==
    [phase |-> phase, entries |-> entries, available_tools |-> tools_built,
     error |-> error]

NoRegistration == Registration("", <<>>, <<>>, "")

\* The entries _register_tools is written with.
WriteEntries(entries) ==
    /\ registration.phase \in {"", "constructed"}
    /\ registration' = Registration("written", entries, <<>>, "")

\* MCPToolRegistry.__init__, line 220: the dict is built, nothing is raised.
ConstructRegistry ==
    /\ registration.phase = "written"
    /\ registration' =
           Registration("constructed", registration.entries,
                        dict_display(registration.entries), "")

(***************************************************************************)
(* Tool calls requested by the backend.  The argument payload is the        *)
(* serialized text the backend sends; json_loads decodes it.               *)
(***************************************************************************)
ArgsNumbers == "{\"numbers\": [1, 2]}"
ArgsDivZero == "{\"a\": 10, \"b\": 0}"
ArgsTruncated == "{\"a\": 10"
ArgsQuotient == "{\"a\": 10, \"b\": 2}"
ArgsNone == "{}"

ToolNames == {"add", "divide", "get_weather"}

\* The payloads the modelled backend sends: one that decodes, one that does not.
ArgPayloads == {ArgsNumbers, ArgsTruncated}

ToolCall(id, fname, arguments) ==
    [id |-> id, name |-> fname, arguments |-> arguments]

\* The call ids of one response: distinct, in the order the backend sent them.
CallId(i) == "call_" \o ToString(i)

\* The requests the modelled backend makes: every name with every payload
\* above, and divide with a = 10, b = 0, the parameters divide declares.
Requests == (ToolNames \X ArgPayloads) \cup {<<"divide", ArgsDivZero>>}

\* The responses that carry n tool calls.
Batches(n) ==
    {[i \in 1..n |-> ToolCall(CallId(i), c[i][1], c[i][2])] :
        c \in [1..n -> Requests]}

\* json.loads on the payloads above: the decoded value, or the JSONDecodeError.
json_loads(s) ==
    CASE s = ArgsNumbers ->
           [raised |-> FALSE, error |-> "", type |-> "dict",
            keys |-> {"numbers"}, numbers |-> <<1, 2>>, a |-> 0, b |-> 0]
      [] s = ArgsDivZero ->
           [raised |-> FALSE, error |-> "", type |-> "dict",
            keys |-> {"a", "b"}, numbers |-> <<>>, a |-> 10, b |-> 0]
      [] s = ArgsQuotient ->
           [raised |-> FALSE, error |-> "", type |-> "dict",
            keys |-> {"a", "b"}, numbers |-> <<>>, a |-> 10, b |-> 2]
      [] s = ArgsNone ->
           [raised |-> FALSE, error |-> "", type |-> "dict",
            keys |-> {}, numbers |-> <<>>, a |-> 0, b |-> 0]
      [] s = ArgsTruncated ->
           [raised |-> TRUE,
            error |-> "Expecting ',' delimiter: line 1 column 9 (char 8)",
            type |-> "", keys |-> {}, numbers |-> <<>>, a |-> 0, b |-> 0]

(***************************************************************************)
(* Tool implementations (CalculatorTools).  A call returns its text or      *)
(* raises: [raised, text], text being str(e) when raised.                  *)
(***************************************************************************)
Returns(text) == [raised |-> FALSE, text |-> text]
Raises(text) == [raised |-> TRUE, text |-> text]

RECURSIVE sum(_)
sum(numbers) ==
    IF numbers = <<>> THEN 0 ELSE Head(numbers) + sum(Tail(numbers))

\* sep.join(map(str, numbers))
RECURSIVE join(_, _)
join(sep, numbers) ==
    IF numbers = <<>> THEN ""
    ELSE IF Len(numbers) = 1 THEN ToString(Head(numbers))
    ELSE ToString(Head(numbers)) \o sep \o join(sep, Tail(numbers))

\* CalculatorTools.add(*numbers)
add(numbers) ==
    Returns("Result: " \o ToString(sum(numbers)) \o "\nCalculation: "
            \o join(" + ", numbers) \o " = " \o ToString(sum(numbers)))

\* A divide without the test of line 147: Python's a / b raises for b = 0.
divideUnguarded(a, b) ==
    IF b = 0
    THEN Raises("division by zero")
    ELSE Returns("Result: " \o ToString(a \div b) \o ".0\nCalculation: "
                 \o ToString(a) \o " / " \o ToString(b) \o " = "
                 \o ToString(a \div b) \o ".0")

\* CalculatorTools.divide(a, b, precision=2), for the quotients that are whole
\* numbers (round() leaves them as they are and str() prints them "q.0").
\* The division sign of the source's text is written "/" here.
divide(a, b) ==
    IF b = 0
    THEN Returns("Error: Division by zero")
    ELSE Returns("Result: " \o ToString(a \div b) \o ".0\nCalculation: "
                 \o ToString(a) \o " / " \o ToString(b) \o " = "
                 \o ToString(a \div b) \o ".0")

\* tool["function"](...) as _handle_tool_calls invokes it (lines 158-163):
\* add gets function_args.get("numbers", []) positionally, every other tool
\* gets **function_args, which Python binds to the signature before the body
\* runs (a TypeError for an unexpected or a missing keyword).
Positional(numbers) == [positional |-> numbers, keywords |-> <<>>]
Keywords(dict) == [positional |-> <<>>, keywords |-> dict]

\* The decoded dict itself: its keys and their values.
Dict(function_args) == [k \in function_args.keys |-> function_args[k]]

\* A dispatcher that passes every tool its arguments by name.
InvocationByName(function_name, function_args) ==
    Keywords(Dict(function_args))

\* Lines 158-163: the arguments the implementation is invoked with.
Invocation(function_name, function_args) ==
    IF function_name \in {"add", "multiply"}
    THEN Positional(IF "numbers" \in function_args.keys
                    THEN function_args.numbers ELSE <<>>)
    ELSE Keywords(Dict(function_args))

\* Python's binding of an invocation to the implementation's signature, and
\* the implementation's body.
Apply(function_name, inv) ==
    CASE function_name = "add" ->
           IF DOMAIN inv.keywords # {}
           THEN Raises("CalculatorTools.add() got an unexpected keyword argument 'numbers'")
           ELSE add(inv.positional)
      [] function_name = "divide" ->
           IF ~(DOMAIN inv.keywords \subseteq {"a", "b", "precision"})
           THEN Raises("CalculatorTools.divide() got an unexpected keyword argument 'numbers'")
           ELSE IF ~({"a", "b"} \subseteq DOMAIN inv.keywords)
           THEN Raises("CalculatorTools.divide() missing required positional arguments")
           ELSE divide(inv.keywords["a"], inv.keywords["b"])

CallFunction(function_name, function_args) ==
    Apply(function_name, Invocation(function_name, function_args))

(***************************************************************************)
(* The dispatch loop of _handle_tool_calls (lines 146-184).  json.loads     *)
(* (line 149) stands before the try of line 156: its exception leaves the   *)
(* loop and the method.  The result is what the loop leaves behind:         *)
(* whether it raised, the tool_results built, and the ids of the calls      *)
(* whose registry lookup (line 154) ran.                                    *)
(***************************************************************************)
ToolResult(tool_call, registry) ==
    LET function_name == tool_call.name
        function_args == json_loads(tool_call.arguments)
        tool == get_tool(registry, function_name)
    IN  IF tool.found
        THEN LET result == CallFunction(function_name, function_args)
             IN  IF result.raised
                 THEN ToolTurn(tool_call.id, function_name,
                               "Error executing tool: " \o result.text)
                 ELSE ToolTurn(tool_call.id, function_name, result.text)
        ELSE ToolTurn(tool_call.id, function_name,
                      "Tool '" \o function_name \o "' not found")

RECURSIVE ToolLoop(_, _, _, _)
ToolLoop(calls, registry, tool_results, looked_up) ==
    IF calls = <<>>
    THEN [raised |-> FALSE, error |-> "", tool_results |-> tool_results,
          dispatched |-> looked_up]
    ELSE LET tool_call == Head(calls)
         IN  IF json_loads(tool_call.arguments).raised
             THEN [raised |-> TRUE,
                   error |-> json_loads(tool_call.arguments).error,
                   tool_results |-> tool_results, dispatched |-> looked_up]
             ELSE ToolLoop(Tail(calls), registry,
                           Append(tool_results, ToolResult(tool_call, registry)),
                           Append(looked_up, tool_call.id))

(***************************************************************************)
(* One iteration of the dispatch loop on its own (lines 147-163), for any   *)
(* tool of the registry: what the implementation is invoked with.           *)
(***************************************************************************)
NoCall == ToolCall("", "", "")

Outcome(outcome, inv) ==
    [outcome |-> outcome, positional |-> inv.positional,
     keywords |-> inv.keywords]

NotInvoked == Outcome("", Positional(<<>>))

\* The calls handed to the loop: every registered name and one that is not,
\* with every payload.
DispatchNames == {ToolOrder[i] : i \in 1..Len(ToolOrder)} \cup {"get_weather"}

DispatchPayloads ==
    {ArgsNumbers, ArgsDivZero, ArgsQuotient, ArgsNone, ArgsTruncated}

DispatchCalls ==
    {ToolCall(CallId(1), n, p) : n \in DispatchNames, p \in DispatchPayloads}

HandToDispatcher(call) ==
    /\ dispatch_call = NoCall \/ invocation # NotInvoked
    /\ dispatch_call' = call
    /\ invocation' = NotInvoked

DispatchOne(registry) ==
    /\ dispatch_call # NoCall
    /\ invocation = NotInvoked
    /\ LET function_name == dispatch_call.name
           function_args == json_loads(dispatch_call.arguments)
           tool == get_tool(registry, function_name)
       IN  invocation' =
             IF function_args.raised
             THEN Outcome("json.loads raised", Positional(<<>>))
             ELSE IF tool.found
             THEN Outcome("invoked", Invocation(function_name, function_args))
             ELSE Outcome("not found", Positional(<<>>))
    /\ UNCHANGED dispatch_call

(***************************************************************************)
(* Conversation store (azure_openai_client.py).                            *)
(***************************************************************************)
\* Python's s[k:] for any integer k.
SliceFrom(s, k) ==
    LET n == Len(s)
        start == IF k < 0 THEN (IF k + n < 0 THEN 0 ELSE k + n)
                 ELSE (IF k > n THEN n ELSE k)
    IN  SubSeq(s, start + 1, n)

\* A snapshot that leaves out the turns without text, as the assistant turns
\* that carry tool calls are.
prepare_messages_skips_empty(hist, maxh) ==
    SelectSeq(IF Len(hist) > maxh
              THEN <<SystemMessage>> \o SliceFrom(hist, 0 - maxh)
              ELSE <<SystemMessage>> \o hist,
              LAMBDA turn : turn.content # "")

\* AzureOpenAIClient._prepare_messages
prepare_messages(hist, maxh) ==
    IF Len(hist) > maxh
    THEN <<SystemMessage>> \o SliceFrom(hist, 0 - maxh)
    ELSE <<SystemMessage>> \o hist

\* AzureOpenAIClient.get_history_length
get_history_length == Len(conversation_history)

\* The tools argument of a backend call: None, or one function per registry
\* entry (get_function_definitions, lines 79-82).
None == <<>>

function_names(registry) ==
    SelectSeq(ToolOrder, LAMBDA n : n \in DOMAIN registry)

(***************************************************************************)
(* get_function_definitions (lines 26-57).  A declared parameter is read    *)
(* character by character: chars gives the characters of the declarations   *)
(* of _register_tools, and replace, contains and startswith are Python's    *)
(* str.replace(old, ""), in and str.startswith.                             *)
(***************************************************************************)
chars(param) ==
    CASE param = "pattern (optional)" ->
           <<"p", "a", "t", "t", "e", "r", "n", " ",
             "(", "o", "p", "t", "i", "o", "n", "a", "l", ")">>
      [] param = "precision (optional)" ->
           <<"p", "r", "e", "c", "i", "s", "i", "o", "n", " ",
             "(", "o", "p", "t", "i", "o", "n", "a", "l", ")">>
      [] param = "*numbers" -> <<"*", "n", "u", "m", "b", "e", "r", "s">>
      [] param = "filename" -> <<"f", "i", "l", "e", "n", "a", "m", "e">>
      [] param = "query" -> <<"q", "u", "e", "r", "y">>
      [] param = "a" -> <<"a">>
      [] param = "b" -> <<"b">>
      [] param = "n" -> <<"n">>
      [] param = "value" -> <<"v", "a", "l", "u", "e">>
      [] param = "from_unit" ->
           <<"f", "r", "o", "m", "_", "u", "n", "i", "t">>
      [] param = "to_unit" -> <<"t", "o", "_", "u", "n", "i", "t">>

OptionalSuffix == <<" ", "(", "o", "p", "t", "i", "o", "n", "a", "l", ")">>
OptionalMarker == <<"(", "o", "p", "t", "i", "o", "n", "a", "l", ")">>
Star == <<"*">>

startswith(cs, prefix) ==
    /\ Len(prefix) <= Len(cs)
    /\ SubSeq(cs, 1, Len(prefix)) = prefix

contains(cs, sub) ==
    \E i \in 0..(Len(cs) - Len(sub)) : SubSeq(cs, i + 1, i + Len(sub)) = sub

RECURSIVE replace(_, _)
replace(cs, old) ==
    IF cs = <<>> THEN <<>>
    ELSE IF startswith(cs, old)
    THEN replace(SubSeq(cs, Len(old) + 1, Len(cs)), old)
    ELSE <<Head(cs)>> \o replace(Tail(cs), old)

\* Line 44.
param_name(param) == Str(replace(replace(chars(param), OptionalSuffix), Star))

\* Every parameter counted as required, whatever it declares.
is_required_always(param) == TRUE

\* Line 45.
is_required(param) == ~contains(chars(param), OptionalMarker)

NumericNames == {"a", "b", "value", "n", "precision"}

\* Lines 47-50: the schema property of one declared parameter.
Property(param) ==
    [type |-> IF param_name(param) \in NumericNames
              THEN "number" ELSE "string",
     description |-> "Parameter: " \o param]

\* Lines 52-53: the names appended to "required", in declaration order.
RECURSIVE Required(_)
Required(params) ==
    IF params = <<>> THEN <<>>
    ELSE (IF is_required(Head(params)) /\ ~startswith(chars(Head(params)), Star)
          THEN <<param_name(Head(params))>> ELSE <<>>)
         \o Required(Tail(params))

\* Lines 32-53: the function definition of one tool.  properties is a dict:
\* a later parameter of the same name replaces an earlier one.
FunctionDefinition(tool_name, tool_info) ==
    LET params == tool_info.parameters
        Last(k) == CHOOSE i \in 1..Len(params) :
                     /\ param_name(params[i]) = k
                     /\ \A j \in (i + 1)..Len(params) :
                          param_name(params[j]) # k
    IN  [name |-> tool_name,
         description |-> tool_info.description,
         parameters |->
           [type |-> "object",
            properties |->
              [k \in {param_name(params[i]) : i \in 1..Len(params)} |->
                 Property(params[Last(k)])],
            required |-> Required(params)]]

\* The definitions in the reverse of the registry's order.
get_function_definitions_reversed(registry) ==
    [i \in 1..Len(function_names(registry)) |->
       LET k == Len(function_names(registry)) + 1 - i
       IN  FunctionDefinition(function_names(registry)[k],
                              registry[function_names(registry)[k]])]

get_function_definitions(registry) ==
    [i \in 1..Len(function_names(registry)) |->
       FunctionDefinition(function_names(registry)[i],
                          registry[function_names(registry)[i]])]

\* What chat's except clause returns (lines 114-117).
error_msg(e) == "Error calling Azure OpenAI: " \o e

\* The chatbot entries process_message appends (app.py lines 43-46, 56-59).
ChatEntry(role, content) == [role |-> role, content |-> content]

Pending == "<chat has not returned>"

\* A backend response: choices[0].message, its content and its tool_calls.
Response(content, calls) == [content |-> content, tool_calls |-> calls]

NoResponse == Response("", <<>>)

\* A chat that builds the schema whatever use_tools says.
\* Line 82: one tool entry per function definition.
ToolEntries(function_defs) ==
    [i \in 1..Len(function_defs) |->
       [type |-> "function", function |-> function_defs[i]]]

\* get_function_definitions is a function of the registry alone: its value
\* for the registry of _register_tools is computed once.
RegisteredDefinitions == get_function_definitions(RegisterTools)

function_defs(registry) ==
    IF registry = RegisterTools THEN RegisteredDefinitions
    ELSE get_function_definitions(registry)

chat_tools_always(u, registry) == ToolEntries(function_defs(registry))

\* The tools chat offers to the backend (lines 79-82).
chat_tools(u, registry) ==
    IF u THEN ToolEntries(function_defs(registry)) ELSE None

\* A clear_history that counts after it has emptied the store.
clear_history_counts_after(hist) ==
    [count |-> Len(<<>>), conversation_history |-> <<>>]

\* AzureOpenAIClient.clear_history: the count returned and the store left.
clear_history(hist) == [count |-> Len(hist), conversation_history |-> <<>>]

(***************************************************************************)
(* azure_openai_server.py: the conversations of chat_with_context and       *)
(* clear_conversation.  conversation_history there is a dict from           *)
(* conversation id to message list; a stored list always begins with the    *)
(* system message, so the empty sequence stands for an absent key.  The     *)
(* calls of call_tool are tasks of one event loop: they interleave at the   *)
(* await of call_azure_openai and nowhere else.                             *)
(***************************************************************************)
MaxServerStored == 5

ConversationIds == {"A", "B"}
ServerTasks == {1, 2}

\* The message argument of the calls of each task.
ServerMessage(t) == IF t = 1 THEN "first" ELSE "second"

Message(role, content) == [role |-> role, content |-> content]

ServerSystemMessage == Message("system", "You are a helpful AI assistant.")

IdleTask == [pc |-> "idle", conversation_id |-> "", message |-> ""]

\* conversation_id in conversation_history
Has(hist, id) == hist[id] # <<>>

\* The text chat_with_context returns (lines 300-303).
ResponseText(id, reply, count) ==
    "**Response (Conversation: " \o id \o "):**\n\n" \o reply
      \o "\n\n*Messages in this conversation: " \o ToString(count) \o "*"

\* The texts clear_conversation returns (lines 431-439).
ClearedText(id, message_count) ==
    "Cleared conversation '" \o id \o "' (" \o ToString(message_count)
      \o " messages)"

NotFoundText(id) == "No conversation found with ID '" \o id \o "'"

\* The except clause of call_tool (lines 444-448).
ErrorText(e) == "Error: " \o e

\* The turns a conversation may still receive: those stored and one reply
\* for every call that awaits the backend for it.
Room(id) ==
    (IF Has(server_history, id) THEN Len(server_history[id]) ELSE 1)
      + Cardinality({t \in ServerTasks :
                       /\ server_task[t].pc = "awaiting"
                       /\ server_task[t].conversation_id = id})

\* chat_with_context up to its await (lines 273-293).
ChatWithContext(t, id) ==
    /\ server_task[t].pc = "idle"
    /\ Room(id) + 2 <= MaxServerStored
    /\ server_history' =
           [server_history EXCEPT ![id] =
              Append(IF Has(server_history, id) THEN server_history[id]
                     ELSE <<ServerSystemMessage>>,
                     Message("user", ServerMessage(t)))]
    /\ server_task' =
           [server_task EXCEPT ![t] =
              [pc |-> "awaiting", conversation_id |-> id,
               message |-> ServerMessage(t)]]
    /\ server_result' = [server_result EXCEPT ![t] = ""]

\* What the backend answers to the call of task t: a text that names the
\* question the call asked, so that a stored reply shows whose it is.
ReplyTo(question) == "re: " \o question

ServerReplies(t) == {ReplyTo(server_task[t].message)}

\* The await returns (lines 295-303).  The dict is indexed again: a
\* conversation deleted in the meantime raises KeyError into the except
\* clause, whose text is the repr of the key.
ChatReturns(t, reply) ==
    /\ server_task[t].pc = "awaiting"
    /\ LET id == server_task[t].conversation_id
       IN  IF Has(server_history, id)
           THEN /\ server_history' =
                       [server_history EXCEPT ![id] =
                          Append(@, Message("assistant", reply))]
                /\ server_result' =
                       [server_result EXCEPT ![t] =
                          ResponseText(id, reply,
                                       Len(server_history'[id]) - 1)]
           ELSE /\ server_result' =
                       [server_result EXCEPT ![t] =
                          ErrorText("'" \o id \o "'")]
                /\ UNCHANGED server_history
    /\ server_task' = [server_task EXCEPT ![t] = IdleTask]

\* call_azure_openai raises (lines 244-246) into the except clause of
\* call_tool.
ChatRaises(t, e) ==
    /\ server_task[t].pc = "awaiting"
    /\ server_result' =
           [server_result EXCEPT ![t] =
              ErrorText("Azure OpenAI API error: " \o e)]
    /\ server_task' = [server_task EXCEPT ![t] = IdleTask]
    /\ UNCHANGED server_history

\* A clear_conversation that empties the whole dict.
ServerClearAll(t, id) ==
    /\ server_task[t].pc = "idle"
    /\ IF Has(server_history, id)
       THEN /\ server_history' = [i \in ConversationIds |-> <<>>]
            /\ server_result' =
                   [server_result EXCEPT ![t] =
                      ClearedText(id, Len(server_history[id]) - 1)]
       ELSE /\ server_result' = [server_result EXCEPT ![t] = NotFoundText(id)]
            /\ UNCHANGED server_history
    /\ UNCHANGED server_task

\* A clear_conversation that resets the conversation to its system message
\* in place of deleting it.
ServerClearResets(t, id) ==
    /\ server_task[t].pc = "idle"
    /\ IF Has(server_history, id)
       THEN /\ server_history' =
                   [server_history EXCEPT ![id] = <<ServerSystemMessage>>]
            /\ server_result' =
                   [server_result EXCEPT ![t] =
                      ClearedText(id, Len(server_history[id]) - 1)]
       ELSE /\ server_result' = [server_result EXCEPT ![t] = NotFoundText(id)]
            /\ UNCHANGED server_history
    /\ UNCHANGED server_task

\* clear_conversation (lines 425-439).
ServerClear(t, id) ==
    /\ server_task[t].pc = "idle"
    /\ IF Has(server_history, id)
       THEN /\ server_history' = [server_history EXCEPT ![id] = <<>>]
            /\ server_result' =
                   [server_result EXCEPT ![t] =
                      ClearedText(id, Len(server_history[id]) - 1)]
       ELSE /\ server_result' = [server_result EXCEPT ![t] = NotFoundText(id)]
            /\ UNCHANGED server_history
    /\ UNCHANGED server_task

(***************************************************************************)
(* mcp_servers/calculator_server.py: call_tool and calculation_history.     *)
(* A number is a Python int, or a Python float of a whole value.  The text  *)
(* of a result is kept as its first word and the pieces that follow it, and *)
(* the signs the source writes outside ASCII are written x, / and <= here.  *)
(***************************************************************************)
\* The number of calculations add_to_history keeps (line 337).
HistoryCap == 100

\* The calculations recorded between two clear_history calls.
MaxRecorded == 102

PyInt(v) == [type |-> "int", value |-> v]
PyFloat(v) == [type |-> "float", value |-> v]

\* str() of a number.
str(x) ==
    IF x.type = "int" THEN ToString(x.value) ELSE ToString(x.value) \o ".0"

\* sep.join(map(str, numbers)), of numbers of either type.
RECURSIVE join_str(_, _)
join_str(sep, numbers) ==
    IF numbers = <<>> THEN ""
    ELSE IF Len(numbers) = 1 THEN str(numbers[1])
    ELSE str(numbers[1]) \o sep \o join_str(sep, Tail(numbers))

\* math.factorial(n)
RECURSIVE factorial(_)
factorial(n) == IF n <= 1 THEN 1 ELSE n * factorial(n - 1)

\* math.sqrt(number), of a perfect square.
sqrt(number) == CHOOSE r \in 0..number : r * r = number

\* An entry of calculation_history (lines 332-335).
Entry(operation, result) == [operation |-> operation, result |-> result]

\* An add_to_history that drops the newest entry when the list is full.
add_to_history_drops_newest(hist, operation, result) ==
    LET appended == Append(hist, Entry(operation, result))
    IN  IF Len(appended) > HistoryCap
        THEN SubSeq(appended, 1, Len(appended) - 1)
        ELSE appended

\* add_to_history (lines 330-338): append, then pop(0) past the cap.
add_to_history(hist, operation, result) ==
    LET appended == Append(hist, Entry(operation, result))
    IN  IF Len(appended) > HistoryCap THEN Tail(appended) ELSE appended

\* A TextContent's text: its first word, and the pieces that follow it.
Text(first, rest) == [first |-> first, rest |-> <<rest>>]

\* How the body of call_tool ends: with a returned text or a raised
\* exception (a KeyError's text is the repr of the key), the list
\* calculation_history has become, and the entries it handed to
\* add_to_history.
Returned(text, hist) ==
    [raised |-> FALSE, error |-> "", text |-> text, history |-> hist,
     recorded |-> <<>>]

Raised(e, hist) ==
    [raised |-> TRUE, error |-> e, text |-> Text("", ""), history |-> hist,
     recorded |-> <<>>]

\* add_to_history(operation, result) followed by the return of the text.
Recorded(hist, operation, result, text) ==
    [raised |-> FALSE, error |-> "", text |-> text,
     history |-> add_to_history(hist, operation, result),
     recorded |-> <<Entry(operation, result)>>]

\* The arguments dict: its keys, and a field for each.
NoArguments == [keys |-> {}]

\* name == "add" (lines 346-353).
CalcAdd(arguments, hist) ==
    IF "numbers" \notin arguments.keys THEN Raised("'numbers'", hist)
    ELSE LET numbers == arguments.numbers
             result == PyInt(sum([i \in DOMAIN numbers |-> numbers[i].value]))
         IN  Recorded(hist, "add(" \o join_str(", ", numbers) \o ")", result,
                      Text("Result", ": " \o str(result)
                             \o "\n\nCalculation: " \o join_str(" + ", numbers)
                             \o " = " \o str(result)))

\* name == "divide" (lines 377-394), for a quotient that is whole.
CalcDivide(arguments, hist) ==
    IF "dividend" \notin arguments.keys
    THEN Raised("'dividend'", hist)
    ELSE IF "divisor" \notin arguments.keys
    THEN Raised("'divisor'", hist)
    ELSE LET dividend == arguments.dividend
             divisor == arguments.divisor
         IN  IF divisor.value = 0
             THEN Returned(Text("Error", ": Division by zero is undefined"),
                           hist)
             ELSE LET result == PyFloat(dividend.value \div divisor.value)
                      formatted_result == result
                  IN  Recorded(hist,
                               "divide(" \o str(dividend) \o ", "
                                 \o str(divisor) \o ")",
                               result,
                               Text("Result", ": " \o str(formatted_result)
                                      \o "\n\nCalculation: " \o str(dividend)
                                      \o " / " \o str(divisor) \o " = "
                                      \o str(formatted_result)))

\* name == "square_root" (lines 407-419).
CalcSquareRoot(arguments, hist) ==
    IF "number" \notin arguments.keys THEN Raised("'number'", hist)
    ELSE LET number == arguments.number
         IN  IF number.value < 0
             THEN Returned(Text("Error",
                     ": Cannot calculate square root of negative number"),
                           hist)
             ELSE LET result == PyFloat(sqrt(number.value))
                  IN  Recorded(hist, "sqrt(" \o str(number) \o ")", result,
                               Text("Result", ": " \o str(result)
                                      \o "\n\nCalculation: sqrt" \o str(number)
                                      \o " = " \o str(result)))

\* name == "factorial" (lines 431-462).
CalcFactorial(arguments, hist) ==
    IF "n" \notin arguments.keys THEN Raised("'n'", hist)
    ELSE LET n == arguments.n
         IN  IF n.value < 0
             THEN Returned(Text("Error",
                     ": Factorial is not defined for negative numbers"), hist)
             ELSE IF n.value > 20
             THEN Returned(Text("Error",
                     ": Factorial limited to n <= 20 to prevent overflow"),
                           hist)
             ELSE LET result == PyInt(factorial(n.value))
                      steps == IF n.value > 0
                               THEN join_str(" x ", [i \in 1..n.value |-> PyInt(i)])
                               ELSE "1"
                      calculation_text ==
                          IF n.value <= 5
                          THEN str(n) \o "! = " \o steps \o " = " \o str(result)
                          ELSE str(n) \o "! = " \o str(result)
                  IN  Recorded(hist, "factorial(" \o str(n) \o ")", result,
                               Text("Result", ": " \o str(result)
                                      \o "\n\nCalculation: "
                                      \o calculation_text))

\* history_text (lines 574-577): the heading, and a line for each entry of
\* enumerate(recent, 1).
HistoryText(recent) ==
    [first |-> "Calculation",
     rest |-> <<" History:\n\n">> \o
              [i \in DOMAIN recent |->
                 ToString(i) \o ". " \o recent[i].operation \o " = "
                   \o str(recent[i].result) \o "\n"]]

\* name == "history" (lines 564-579).
CalcHistory(arguments, hist) ==
    LET limit == IF "limit" \in arguments.keys THEN arguments.limit
                 ELSE PyInt(10)
    IN  IF hist = <<>>
        THEN Returned(Text("No", " calculation history available."), hist)
        ELSE Returned(HistoryText(SliceFrom(hist, 0 - limit.value)), hist)

\* name == "clear_history" (lines 581-587).
CalcClearHistory(arguments, hist) ==
    Returned(Text("Cleared", " " \o ToString(Len(hist))
                    \o " calculations from history."),
             <<>>)

\* The body of the try statement of call_tool (lines 344-686).
Handle(name, arguments, hist) ==
    CASE name = "add" -> CalcAdd(arguments, hist)
      [] name = "divide" -> CalcDivide(arguments, hist)
      [] name = "square_root" -> CalcSquareRoot(arguments, hist)
      [] name = "factorial" -> CalcFactorial(arguments, hist)
      [] name = "history" -> CalcHistory(arguments, hist)
      [] name = "clear_history" -> CalcClearHistory(arguments, hist)
      [] OTHER -> Raised("Unknown tool: " \o name, hist)

\* A call_tool without its except clause.
call_tool_without_except(name, arguments, hist) ==
    Handle(name, arguments, hist)

\* call_tool (lines 340-692): what the body raises becomes a text.
call_tool(name, arguments, hist) ==
    LET body == Handle(name, arguments, hist)
    IN  IF body.raised
        THEN [body EXCEPT
                !.raised = FALSE,
                !.text = Text("Error", " executing " \o name \o ": "
                                \o body.error)]
        ELSE body

\* One call of call_tool by the server's client.
CallTool(name, arguments) ==
    LET outcome == call_tool(name, arguments, calculation_history)
        recorded == IF name = "clear_history" THEN <<>>
                    ELSE calc_recorded \o outcome.recorded
    IN  /\ Len(recorded) <= MaxRecorded
        /\ calculation_history' = outcome.history
        /\ calc_recorded' = recorded
        /\ calc_result' = [name |-> name, raised |-> outcome.raised,
                           text |-> outcome.text]

\* The calls the client makes.  The first calculation after a clear_history
\* is of its choice; it numbers the additions that follow, so that every
\* entry they record differs from the others.
Call(name, arguments) == [name |-> name, arguments |-> arguments]

VariedCalls ==
    {Call("divide", [keys |-> {"dividend", "divisor"},
                     dividend |-> PyInt(6), divisor |-> PyInt(3)]),
     Call("square_root", [keys |-> {"number"}, number |-> PyInt(4)]),
     Call("factorial", [keys |-> {"n"}, n |-> PyInt(3)])}

\* An unknown tool, a missing required argument, a division by zero, a
\* negative square root, and a factorial argument outside 0..20.
ErrorCalls ==
    {Call("modulo", NoArguments),
     Call("add", NoArguments),
     Call("divide", [keys |-> {"dividend"}, dividend |-> PyInt(6)]),
     Call("square_root", NoArguments),
     Call("factorial", NoArguments),
     Call("divide", [keys |-> {"dividend", "divisor"},
                     dividend |-> PyInt(6), divisor |-> PyInt(0)]),
     Call("square_root", [keys |-> {"number"}, number |-> PyInt(0 - 4)]),
     Call("factorial", [keys |-> {"n"}, n |-> PyInt(0 - 1)]),
     Call("factorial", [keys |-> {"n"}, n |-> PyInt(21)])}

HistoryLimits == {0, 1, 2}

(***************************************************************************)
(* mcp_client.py: MCPClient.  A dict is the sequence of its entries in the  *)
(* order of insertion.                                                      *)
(***************************************************************************)
ServerNames == {"file-system", "calculator", "azure-openai"}

ScriptPaths == {"src/mcp_servers/fs_server.py",
                "src/mcp_servers/calculator_server.py"}

\* name in dict
InDict(dict, name) == \E i \in DOMAIN dict : dict[i].name = name

\* dict[name] = value
SetItem(dict, name, value) ==
    IF InDict(dict, name)
    THEN [i \in DOMAIN dict |-> IF dict[i].name = name THEN value ELSE dict[i]]
    ELSE Append(dict, value)

\* del dict[name]
RECURSIVE DelItem(_, _)
DelItem(dict, name) ==
    IF dict = <<>> THEN <<>>
    ELSE IF Head(dict).name = name THEN Tail(dict)
    ELSE <<Head(dict)>> \o DelItem(Tail(dict), name)

\* MCPClient.start_server (lines 19-36).
start_server(name, script_path) ==
    /\ mcp_servers' =
           SetItem(mcp_servers, name,
                   [name |-> name, script |-> script_path,
                    status |-> "running"])
    /\ mcp_event' = [op |-> "start_server", name |-> name, returned |-> TRUE]
    /\ UNCHANGED mcp_processes

\* MCPClient.stop_server (lines 38-43).
stop_server(name) ==
    /\ IF InDict(mcp_processes, name)
       THEN /\ mcp_processes' = DelItem(mcp_processes, name)
            /\ mcp_servers' = DelItem(mcp_servers, name)
       ELSE UNCHANGED <<mcp_processes, mcp_servers>>
    /\ mcp_event' = [op |-> "stop_server", name |-> name, returned |-> FALSE]

\* MCPClient.get_available_servers (lines 45-47).
get_available_servers == [i \in DOMAIN mcp_servers |-> mcp_servers[i].name]

\* MCPClient.is_server_running (lines 49-51).
is_server_running(name) == InDict(mcp_servers, name)

(***************************************************************************)
(* mcp_client.py: FileSystemTools.read_file.  A path is the sequence of its *)
(* components below the root, a filename a path that is relative or         *)
(* absolute.  The file system holds no symbolic link.                       *)
(***************************************************************************)
\* The longest filename read_file is called with, in components.
MaxParts == 3

\* file_base_path ("./test_files"), the working directory being /app.
base_path == <<"app", "test_files">>

\* The files there are, and the text of each.
Files ==
    {<<"app", "test_files", "notes.txt">>,
     <<"app", "test_files_backup", "notes.txt">>,
     <<"app", "notes.txt">>}

read_text(path) ==
    CASE path = <<"app", "test_files", "notes.txt">> -> "notes"
      [] path = <<"app", "test_files_backup", "notes.txt">> -> "old notes"
      [] path = <<"app", "notes.txt">> -> "private notes"

Directories ==
    {SubSeq(f, 1, n) : f \in Files, n \in 0..2} \ Files

Components == {"..", "app", "test_files", "test_files_backup", "notes.txt"}

\* The characters of a component.
component_chars(c) ==
    CASE c = ".." -> <<".", ".">>
      [] c = "." -> <<".">>
      [] c = "app" -> <<"a", "p", "p">>
      [] c = "test_files" ->
           <<"t", "e", "s", "t", "_", "f", "i", "l", "e", "s">>
      [] c = "test_files_backup" ->
           <<"t", "e", "s", "t", "_", "f", "i", "l", "e", "s",
             "_", "b", "a", "c", "k", "u", "p">>
      [] c = "notes.txt" -> <<"n", "o", "t", "e", "s", ".", "t", "x", "t">>

Filename(absolute, parts) == [absolute |-> absolute, parts |-> parts]

RECURSIVE SeqsUpTo(_, _)
SeqsUpTo(S, n) ==
    IF n = 0 THEN {<<>>}
    ELSE LET shorter == SeqsUpTo(S, n - 1)
         IN  shorter \cup {Append(q, c) : q \in shorter, c \in S}

Filenames ==
    {Filename(a, q) : a \in BOOLEAN, q \in SeqsUpTo(Components, MaxParts) \ {<<>>}}

\* self.base_path / filename: an absolute filename replaces the base.
joinpath(base, filename) ==
    IF filename.absolute THEN filename.parts ELSE base \o filename.parts

\* Path.resolve(): "." is dropped, ".." leaves the directory before it, and
\* the root is its own parent.
RECURSIVE resolve_from(_, _)
resolve_from(done, parts) ==
    IF parts = <<>> THEN done
    ELSE IF Head(parts) = "." THEN resolve_from(done, Tail(parts))
    ELSE IF Head(parts) = ".."
    THEN resolve_from(IF done = <<>> THEN <<>>
                      ELSE SubSeq(done, 1, Len(done) - 1),
                      Tail(parts))
    ELSE resolve_from(Append(done, Head(parts)), Tail(parts))

resolve(path) == resolve_from(<<>>, path)

\* str(path), of an absolute path, in characters.
RECURSIVE path_chars(_)
path_chars(path) ==
    IF path = <<>> THEN <<>>
    ELSE <<"/">> \o component_chars(Head(path)) \o path_chars(Tail(path))

path_str(path) == IF path = <<>> THEN <<"/">> ELSE path_chars(path)

\* The filename as the texts show it.
RECURSIVE parts_text(_)
parts_text(parts) ==
    IF parts = <<>> THEN ""
    ELSE IF Len(parts) = 1 THEN Head(parts)
    ELSE Head(parts) \o "/" \o parts_text(Tail(parts))

filename_text(filename) ==
    (IF filename.absolute THEN "/" ELSE "") \o parts_text(filename.parts)

AccessDenied == "Error: Access denied to file outside allowed directory"

\* What read_file gives: the text it returns and the file whose text it
\* took, if it took one.
Read(text, file) == [text |-> text, file |-> file]

NoFile == <<>>

\* The security check (line 78): startswith on the two strings.
allowed(resolved, base) == startswith(path_str(resolved), path_str(base))

\* FileSystemTools.read_file (lines 72-87).
read_file(filename) ==
    LET path == joinpath(base_path, filename)
    IN  IF ~allowed(resolve(path), resolve(base_path))
        THEN Read(AccessDenied, NoFile)
        ELSE IF resolve(path) \notin Files \cup Directories
        THEN Read("Error: File '" \o filename_text(filename)
                    \o "' not found", NoFile)
        ELSE IF resolve(path) \in Directories
        THEN Read("Error reading file: [Errno 21] Is a directory: '"
                    \o (IF filename.absolute THEN "" ELSE "test_files/")
                    \o filename_text(filename) \o "'", NoFile)
        ELSE Read("Contents of " \o filename_text(filename) \o ":\n\n"
                    \o read_text(resolve(path)),
                  resolve(path))

\* One call of read_file.
ReadFile(filename) ==
    /\ fs_filename' = filename
    /\ fs_result' = read_file(filename)

(***************************************************************************)
(* Initial state: AzureOpenAIClient.__init__ (lines 23-24) and the module   *)
(* globals of app.py (lines 18-22).  MAX_HISTORY is configuration.          *)
(***************************************************************************)
Init ==
    /\ conversation_history = <<>>
    /\ max_history \in 0..MaxHistoryCfg
    /\ available_tools = RegisterTools
    /\ history = <<>>
    /\ pc = "idle"
    /\ message = <<>>
    /\ use_tools = FALSE
    /\ messages = <<>>
    /\ tools = None
    /\ backend_calls = 0
    /\ tool_calls = <<>>
    /\ dispatched = <<>>
    /\ pre_history = <<>>
    /\ chat_result = Pending
    /\ response = NoResponse
    /\ clear_count = 0
    /\ event = "init"
    /\ thread = [t \in {1, 2} |-> [pc |-> "idle", messages |-> <<>>,
                                  tools |-> <<>>]]
    /\ owner = <<>>
    /\ dispatch_call = NoCall
    /\ invocation = NotInvoked
    /\ registration = NoRegistration
    /\ server_history = [id \in ConversationIds |-> <<>>]
    /\ server_task = [t \in ServerTasks |-> IdleTask]
    /\ server_result = [t \in ServerTasks |-> ""]
    /\ calculation_history = <<>>
    /\ calc_recorded = <<>>
    /\ calc_result = [name |-> "", raised |-> FALSE, text |-> Text("", "")]
    /\ mcp_servers = <<>>
    /\ mcp_processes = <<>>
    /\ mcp_event = [op |-> "init", name |-> "", returned |-> FALSE]
    /\ fs_filename = Filename(FALSE, <<>>)
    /\ fs_result = Read("", NoFile)

\* process_message returning at line 38: nothing is touched.
EmptyInput(m, u) ==
    /\ message' = m
    /\ event' = "empty_input"
    /\ UNCHANGED <<conversation_history, max_history, available_tools,
                   history, pc, use_tools, messages, tools, backend_calls,
                   tool_calls, dispatched, pre_history, chat_result,
                   response, clear_count, conc, apart>>

\* process_message lines 40-54 and chat lines 69-93, up to the first await.
StartTurn(m, u) ==
    /\ Len(conversation_history) + 2 <= MaxStored
    /\ message' = m
    /\ use_tools' = u
    /\ history' = Append(history, ChatEntry("user", Str(m)))
    /\ pre_history' = conversation_history
    /\ conversation_history' = Append(conversation_history, UserTurn(Str(m)))
    /\ messages' = prepare_messages(conversation_history', max_history)
    /\ tools' = chat_tools(u, available_tools)
    /\ backend_calls' = 1
    /\ tool_calls' = <<>>
    /\ dispatched' = <<>>
    /\ chat_result' = Pending
    /\ response' = NoResponse
    /\ clear_count' = 0
    /\ pc' = "call1"
    /\ event' = "backend_call_1"
    /\ UNCHANGED <<max_history, available_tools, conc, apart>>

\* process_message (app.py lines 36-54), called by submit_message.
ProcessMessage(m, u) ==
    /\ pc = "idle"
    /\ IF strip(m) = <<>> THEN EmptyInput(m, u) ELSE StartTurn(m, u)

\* chat returns text to process_message, which appends it (app.py 56-59, 67).
ReturnToShell(text) ==
    /\ chat_result' = text
    /\ history' = Append(history, ChatEntry("assistant", text))
    /\ pc' = "idle"
    /\ messages' = <<>>
    /\ tools' = None
    /\ UNCHANGED <<max_history, available_tools, message, use_tools,
                   pre_history, clear_count, conc, apart>>

\* An except clause that also stores the error text as an assistant turn.
Backend1RaisesAndStores(e) ==
    /\ pc = "call1"
    /\ conversation_history' =
           Append(conversation_history, AssistantTurn(error_msg(e), <<>>))
    /\ event' = "backend_call_1_raised"
    /\ ReturnToShell(error_msg(e))
    /\ UNCHANGED <<backend_calls, tool_calls, dispatched, response>>

\* The await of line 86 raises: chat's except clause (lines 114-117).
Backend1Raises(e) ==
    /\ pc = "call1"
    /\ event' = "backend_call_1_raised"
    /\ ReturnToShell(error_msg(e))
    /\ UNCHANGED <<conversation_history, backend_calls, tool_calls, dispatched,
                   response>>

\* A chat that returns the text without storing the assistant turn.
Backend1TextNotStored(response_text) ==
    /\ pc = "call1"
    /\ event' = "done_without_tools"
    /\ response' = Response(response_text, <<>>)
    /\ ReturnToShell(response_text)
    /\ UNCHANGED <<conversation_history, backend_calls, tool_calls, dispatched>>

\* The first response carries no tool calls (chat lines 95-112).
Backend1Text(response_text) ==
    /\ pc = "call1"
    /\ conversation_history' =
           Append(conversation_history, AssistantTurn(response_text, <<>>))
    /\ event' = "done_without_tools"
    /\ response' = Response(response_text, <<>>)
    /\ ReturnToShell(response_text)
    /\ UNCHANGED <<backend_calls, tool_calls, dispatched>>

\* The first response carries tool calls: _handle_tool_calls lines 128-197, up
\* to its await, or up to the json.loads that raises into chat's except clause.
\* The backend answers with tool calls only when it was offered tools.
Backend1ToolCalls(calls) ==
    /\ pc = "call1"
    /\ tools # None
    /\ Len(conversation_history) + Len(calls) + 2 <= MaxStored
    /\ tool_calls' = calls
    /\ response' = Response("", calls)
    /\ LET issued == Append(conversation_history, AssistantTurn("", calls))
           loop == ToolLoop(calls, available_tools, <<>>, <<>>)
       IN  /\ dispatched' = loop.dispatched
           /\ IF loop.raised
              THEN /\ conversation_history' = issued
                   /\ event' = "dispatch_raised"
                   /\ ReturnToShell(error_msg(loop.error))
                   /\ UNCHANGED backend_calls
              ELSE /\ conversation_history' = issued \o loop.tool_results
                   /\ messages' =
                          prepare_messages(conversation_history', max_history)
                   /\ tools' = None
                   /\ backend_calls' = backend_calls + 1
                   /\ pc' = "call2"
                   /\ event' = "backend_call_2"
                   /\ UNCHANGED <<max_history, available_tools, history,
                                  message, use_tools, pre_history,
                                  chat_result, clear_count, conc, apart>>

\* A second round: the tool calls of the second response are stored and
\* dispatched as those of the first are.
Backend2TextDispatches(final_text, calls) ==
    /\ pc = "call2"
    /\ LET loop == ToolLoop(calls, available_tools, <<>>, <<>>)
       IN  /\ conversation_history' =
                  IF calls = <<>>
                  THEN Append(conversation_history,
                              AssistantTurn(final_text, <<>>))
                  ELSE Append(conversation_history,
                              AssistantTurn(final_text, calls))
                         \o loop.tool_results
           /\ dispatched' = dispatched \o loop.dispatched
    /\ event' = "done_with_tools"
    /\ response' = Response(final_text, calls)
    /\ ReturnToShell(final_text)
    /\ UNCHANGED <<backend_calls, tool_calls>>

\* A loop: a second response with tool calls sends the turn round again.
Backend2TextLoops(final_text, calls) ==
    /\ pc = "call2"
    /\ IF calls = <<>>
       THEN /\ conversation_history' =
                   Append(conversation_history, AssistantTurn(final_text, <<>>))
            /\ event' = "done_with_tools"
            /\ response' = Response(final_text, calls)
            /\ ReturnToShell(final_text)
            /\ UNCHANGED <<backend_calls, tool_calls, dispatched>>
       ELSE /\ event' = "backend_call_2"
            /\ response' = Response(final_text, calls)
            /\ UNCHANGED <<conversation_history, max_history, available_tools,
                           history, pc, message, use_tools, messages, tools,
                           backend_calls, tool_calls, dispatched, pre_history,
                           chat_result, clear_count, conc, apart>>

\* The await of line 192 returns (lines 199-205): only the content of the
\* response is read, whatever else it carries.
Backend2Text(final_text, calls) ==
    /\ pc = "call2"
    /\ conversation_history' =
           Append(conversation_history, AssistantTurn(final_text, <<>>))
    /\ event' = "done_with_tools"
    /\ response' = Response(final_text, calls)
    /\ ReturnToShell(final_text)
    /\ UNCHANGED <<backend_calls, tool_calls, dispatched>>

\* An except clause that takes the turn's tool-call group out of the store.
Backend2RaisesRollsBack(e) ==
    /\ pc = "call2"
    /\ conversation_history' = SubSeq(conversation_history, 1, Len(pre_history) + 1)
    /\ event' = "backend_call_2_raised"
    /\ ReturnToShell(error_msg(e))
    /\ UNCHANGED <<backend_calls, tool_calls, dispatched, response>>

\* An exception of the second call that no except clause catches.
Backend2RaisesEscapes(e) ==
    /\ pc = "call2"
    /\ pc' = "raised"
    /\ event' = "backend_call_2_raised"
    /\ UNCHANGED <<conversation_history, max_history, available_tools,
                   history, message, use_tools, messages, tools,
                   backend_calls, tool_calls, dispatched, pre_history,
                   chat_result, response, clear_count, conc, apart>>

\* The await of line 192 raises: it propagates to chat's except clause.
Backend2Raises(e) ==
    /\ pc = "call2"
    /\ event' = "backend_call_2_raised"
    /\ ReturnToShell(error_msg(e))
    /\ UNCHANGED <<conversation_history, backend_calls, tool_calls, dispatched,
                   response>>

\* A clear that also takes a tool out of the registry.
ClearConversationDropsTool ==
    /\ pc = "idle"
    /\ conversation_history' =
           clear_history(conversation_history).conversation_history
    /\ clear_count' = clear_history(conversation_history).count
    /\ available_tools' =
           [n \in DOMAIN available_tools \ {"add"} |-> available_tools[n]]
    /\ history' = <<>>
    /\ event' = "cleared"
    /\ message' = <<>>
    /\ use_tools' = FALSE
    /\ backend_calls' = 0
    /\ tool_calls' = <<>>
    /\ dispatched' = <<>>
    /\ pre_history' = <<>>
    /\ chat_result' = Pending
    /\ response' = NoResponse
    /\ UNCHANGED <<max_history, pc, messages, tools, conc, apart>>

\* clear_conversation (app.py lines 70-73) and clear_history (lines 233-237).
\* The arguments and locals of the turn that ended before are out of scope by
\* now: the model forgets them.
ClearConversation ==
    /\ pc = "idle"
    /\ conversation_history' =
           clear_history(conversation_history).conversation_history
    /\ clear_count' = clear_history(conversation_history).count
    /\ history' = <<>>
    /\ event' = "cleared"
    /\ message' = <<>>
    /\ use_tools' = FALSE
    /\ backend_calls' = 0
    /\ tool_calls' = <<>>
    /\ dispatched' = <<>>
    /\ pre_history' = <<>>
    /\ chat_result' = Pending
    /\ response' = NoResponse
    /\ UNCHANGED <<max_history, available_tools, pc, messages, tools, conc, apart>>

\* MCPToolRegistry.get_all_tools
get_all_tools(registry) == registry

\* get_stats (app.py lines 76-87), bound to refresh_stats_btn.click: it reads
\* the store's length and the registry's size into the text it returns.  As
\* in ClearConversation, the locals of the turn that ended before are gone.
Stats(history_length, tool_count) ==
    [history_length |-> history_length, tools |-> tool_count]

get_stats ==
    Stats(get_history_length,
          Cardinality(DOMAIN get_all_tools(available_tools)))

RefreshStats ==
    /\ pc = "idle"
    /\ event' = "stats"
    /\ clear_count' = 0
    /\ message' = <<>>
    /\ use_tools' = FALSE
    /\ backend_calls' = 0
    /\ tool_calls' = <<>>
    /\ dispatched' = <<>>
    /\ pre_history' = conversation_history
    /\ chat_result' = Pending
    /\ response' = NoResponse
    /\ UNCHANGED <<conversation_history, max_history, available_tools,
                   history, pc, messages, tools, conc, apart>>

Next ==
    \/ RefreshStats
    \/ \E m \in UserInputs, u \in BOOLEAN : ProcessMessage(m, u)
    \/ \E e \in BackendErrors : Backend1Raises(e)
    \/ \E t \in BackendTexts : Backend1Text(t)
    \/ \E n \in 1..MaxCalls : \E calls \in Batches(n) : Backend1ToolCalls(calls)
    \/ \E t \in BackendTexts, calls \in {<<>>} \cup Batches(1) :
          Backend2Text(t, calls)
    \/ \E e \in BackendErrors : Backend2Raises(e)
    \/ ClearConversation

Spec == Init /\ [][Next]_vars

(***************************************************************************)
(* The backend answers: every await of chat.completions.create returns or   *)
(* raises (lines 86 and 192).                                               *)
(***************************************************************************)
Respond1 ==
    \/ \E e \in BackendErrors : Backend1Raises(e)
    \/ \E t \in BackendTexts : Backend1Text(t)
    \/ \E n \in 1..MaxCalls : \E calls \in Batches(n) : Backend1ToolCalls(calls)

Respond2 ==
    \/ \E t \in BackendTexts, calls \in {<<>>} \cup Batches(1) :
          Backend2Text(t, calls)
    \/ \E e \in BackendErrors : Backend2Raises(e)

SpecFair == Spec /\ WF_vars(Respond1) /\ WF_vars(Respond2)

(***************************************************************************)
(* Concurrent calls.  submit_message (app.py lines 196-199) runs each       *)
(* process_message in its own asyncio.run, on the worker thread of the      *)
(* event that fired (submit_btn.click, msg.submit, clear_btn.click, from    *)
(* any browser session), and all of them use the one module-level ai_client *)
(* (app.py line 18).  Nothing in the source serialises them.  A call is     *)
(* modelled in the same steps as above, each step atomic between two        *)
(* awaits; real threads may also be switched inside a step.                 *)
(***************************************************************************)
Threads == {1, 2}

\* What the user of each session types.
SessionMessage(t) == IF t = 1 THEN <<" ", "h">> ELSE <<"k">>

\* The tool-call responses of the concurrent calls: one call of add, with a
\* payload that decodes or one that does not.
ConcBatches == {calls \in Batches(1) : calls[1].name = "add"}

IdleThread == [pc |-> "idle", messages |-> None, tools |-> None]

\* owner: the session whose call appended the turn, and whether that call is
\* the session's latest.
Own(t) == [session |-> t, current |-> TRUE]

Retire(own, t) ==
    [i \in 1..Len(own) |->
       IF own[i].session = t THEN [own[i] EXCEPT !.current = FALSE] ELSE own[i]]

Return(t) == thread' = [thread EXCEPT ![t] = IdleThread]

\* process_message and chat up to the first await, in session t.
CStart(t, u) ==
    /\ thread[t].pc = "idle"
    /\ Len(conversation_history) + 1 <= MaxStored
    /\ conversation_history' =
           Append(conversation_history, UserTurn(Str(SessionMessage(t))))
    /\ owner' = Append(Retire(owner, t), Own(t))
    /\ thread' = [thread EXCEPT ![t] =
                    [pc |-> "call1",
                     messages |-> prepare_messages(conversation_history',
                                                   max_history),
                     tools |-> chat_tools(u, available_tools)]]
    /\ UNCHANGED <<max_history, available_tools, single, apart>>

CBackend1Raises(t, e) ==
    /\ thread[t].pc = "call1"
    /\ Return(t)
    /\ UNCHANGED <<conversation_history, owner, max_history, available_tools,
                   single, apart>>

CBackend1Text(t, response_text) ==
    /\ thread[t].pc = "call1"
    /\ Len(conversation_history) + 1 <= MaxStored
    /\ conversation_history' =
           Append(conversation_history, AssistantTurn(response_text, <<>>))
    /\ owner' = Append(owner, Own(t))
    /\ Return(t)
    /\ UNCHANGED <<max_history, available_tools, single, apart>>

CBackend1ToolCalls(t, calls) ==
    /\ thread[t].pc = "call1"
    /\ thread[t].tools # None
    /\ Len(conversation_history) + Len(calls) + 1 <= MaxStored
    /\ LET issued == Append(conversation_history, AssistantTurn("", calls))
           loop == ToolLoop(calls, available_tools, <<>>, <<>>)
       IN  IF loop.raised
           THEN /\ conversation_history' = issued
                /\ owner' = Append(owner, Own(t))
                /\ Return(t)
           ELSE /\ conversation_history' = issued \o loop.tool_results
                /\ owner' = owner \o [i \in 1..(Len(calls) + 1) |-> Own(t)]
                /\ thread' = [thread EXCEPT ![t] =
                                [pc |-> "call2",
                                 messages |->
                                   prepare_messages(conversation_history',
                                                    max_history),
                                 tools |-> None]]
    /\ UNCHANGED <<max_history, available_tools, single, apart>>

CBackend2Text(t, final_text) ==
    /\ thread[t].pc = "call2"
    /\ Len(conversation_history) + 1 <= MaxStored
    /\ conversation_history' =
           Append(conversation_history, AssistantTurn(final_text, <<>>))
    /\ owner' = Append(owner, Own(t))
    /\ Return(t)
    /\ UNCHANGED <<max_history, available_tools, single, apart>>

CBackend2Raises(t, e) ==
    /\ thread[t].pc = "call2"
    /\ Return(t)
    /\ UNCHANGED <<conversation_history, owner, max_history, available_tools,
                   single, apart>>

\* clear_conversation, from session t, whatever the other calls are doing.
CClear(t) ==
    /\ conversation_history' =
           clear_history(conversation_history).conversation_history
    /\ owner' = <<>>
    /\ UNCHANGED <<thread, max_history, available_tools, single, apart>>

NextConc ==
    \/ \E t \in Threads, u \in BOOLEAN : CStart(t, u)
    \/ \E t \in Threads, e \in BackendErrors : CBackend1Raises(t, e)
    \/ \E t \in Threads, x \in BackendTexts : CBackend1Text(t, x)
    \/ \E t \in Threads, calls \in ConcBatches : CBackend1ToolCalls(t, calls)
    \/ \E t \in Threads, x \in BackendTexts : CBackend2Text(t, x)
    \/ \E t \in Threads, e \in BackendErrors : CBackend2Raises(t, e)
    \/ \E t \in Threads : CClear(t)

SpecConc == Init /\ [][NextConc]_vars

(***************************************************************************)
(* The dispatcher on one call at a time, and the construction of a          *)
(* registry, each as a specification of its own.                            *)
(***************************************************************************)
NextDispatch ==
    /\ \/ \E call \in DispatchCalls : HandToDispatcher(call)
       \/ DispatchOne(available_tools)
    /\ UNCHANGED <<conversation_history, max_history, available_tools,
                   single, conc, files,
                   registration, server, calc, mcp>>

SpecDispatch == Init /\ [][NextDispatch]_vars

NextRegistry ==
    /\ \/ \E entries \in EntryLists : WriteEntries(entries)
       \/ ConstructRegistry
    /\ UNCHANGED <<conversation_history, max_history, available_tools,
                   single, conc, files,
                   dispatch_call, invocation, server, calc,
                   mcp>>

SpecRegistry == Init /\ [][NextRegistry]_vars

(***************************************************************************)
(* azure_openai_server.py: call_tool called for chat_with_context and       *)
(* clear_conversation, in any interleaving.                                 *)
(***************************************************************************)
NextServer ==
    /\ \/ \E t \in ServerTasks, id \in ConversationIds : ChatWithContext(t, id)
       \/ \E t \in ServerTasks : \E x \in ServerReplies(t) : ChatReturns(t, x)
       \/ \E t \in ServerTasks, e \in BackendErrors : ChatRaises(t, e)
       \/ \E t \in ServerTasks, id \in ConversationIds : ServerClear(t, id)
    /\ UNCHANGED <<conversation_history, max_history, available_tools,
                   single, conc, files,
                   dispatch_call, invocation, registration,
                   calc, mcp>>

\* The server is a process of its own: the client's configuration is not
\* part of it.
InitServer == Init /\ max_history = 0

SpecServer == InitServer /\ [][NextServer]_vars

(***************************************************************************)
(* calculator_server.py: call_tool called again and again.  The calls are   *)
(* answered one after the other: the body of call_tool has no await.        *)
(***************************************************************************)
NextCalc ==
    /\ \/ CallTool("add",
                   [keys |-> {"numbers"},
                    numbers |-> <<PyInt(Len(calc_recorded) + 1), PyInt(1)>>])
       \/ /\ calc_recorded = <<>>
          /\ \E c \in VariedCalls : CallTool(c.name, c.arguments)
       \/ \E c \in ErrorCalls : CallTool(c.name, c.arguments)
       \/ \E l \in HistoryLimits :
             CallTool("history", [keys |-> {"limit"}, limit |-> PyInt(l)])
       \/ CallTool("history", NoArguments)
       \/ CallTool("clear_history", NoArguments)
    /\ UNCHANGED <<conversation_history, max_history, available_tools,
                   single, conc, files,
                   dispatch_call, invocation, registration,
                   server, mcp>>

SpecCalc == InitServer /\ [][NextCalc]_vars

(***************************************************************************)
(* mcp_client.py: servers started and stopped in any order.                 *)
(***************************************************************************)
NextMCP ==
    /\ \/ \E name \in ServerNames, script_path \in ScriptPaths :
             start_server(name, script_path)
       \/ \E name \in ServerNames : stop_server(name)
    /\ UNCHANGED <<conversation_history, max_history, available_tools,
                   single, conc, files,
                   dispatch_call, invocation, registration,
                   server, calc>>

SpecMCP == InitServer /\ [][NextMCP]_vars

(***************************************************************************)
(* mcp_client.py: read_file called with one filename after the other.       *)
(***************************************************************************)
NextFiles ==
    /\ \E filename \in Filenames : ReadFile(filename)
    /\ UNCHANGED <<conversation_history, max_history, available_tools,
                   single, conc, dispatch_call, invocation, registration,
                   server, calc, mcp>>

SpecFiles == InitServer /\ [][NextFiles]_vars

(***************************************************************************)
(* Vocabulary of the properties.                                           *)
(***************************************************************************)
\* The steps after which _handle_tool_calls has run its dispatch loop.
Handled ==
    {"backend_call_2", "dispatch_raised", "done_with_tools",
     "backend_call_2_raised"}

\* The steps that end a user turn.
TurnEnded ==
    {"backend_call_1_raised", "done_without_tools", "dispatch_raised",
     "done_with_tools", "backend_call_2_raised"}

\* Index in conversation_history of the turn's assistant tool-call turn.
IssuedAt == Len(pre_history) + 2

\* The i-th request of the first response has its tool-result turn in place.
HasResult(i) ==
    /\ IssuedAt + i <= Len(conversation_history)
    /\ conversation_history[IssuedAt + i].role = "tool"
    /\ conversation_history[IssuedAt + i].tool_call_id = tool_calls[i].id

\* Number of tool-result turns that directly follow index i of h.
RECURSIVE ResultsAfter(_, _)
ResultsAfter(h, i) ==
    IF i + 1 <= Len(h) /\ h[i + 1].role = "tool"
    THEN 1 + ResultsAfter(h, i + 1)
    ELSE 0

\* The registry lookup of line 154 ran for the i-th request of the response.
LookedUp(i) == \E d \in 1..Len(dispatched) : dispatched[d] = tool_calls[i].id

IsErrorString(text) == \E e \in BackendErrors \cup
                          {json_loads(p).error : p \in ArgPayloads} :
                          text = error_msg(e)

\* A message made of whitespace only (the empty message included).
IsBlank(m) == \A i \in 1..Len(m) : m[i] \in Whitespace

\* The last n turns of h, all of h when it holds fewer.
LastTurns(h, n) ==
    IF Len(h) > n THEN SubSeq(h, Len(h) - n + 1, Len(h)) ELSE h

\* Every assistant turn with tool calls is directly followed by one result per
\* call, in order, and every tool-result turn belongs to such a group.
StorePaired(h) ==
    /\ \A i \in 1..Len(h) :
         h[i].tool_calls # <<>> =>
           /\ ResultsAfter(h, i) = Len(h[i].tool_calls)
           /\ \A j \in 1..Len(h[i].tool_calls) :
                h[i + j].tool_call_id = h[i].tool_calls[j].id
    /\ \A k \in 1..Len(h) :
         h[k].role = "tool" =>
           \E i \in 1..(k - 1) :
             /\ h[i].tool_calls # <<>>
             /\ k - i <= Len(h[i].tool_calls)
             /\ \A j \in (i + 1)..k : h[j].role = "tool"
             /\ h[k].tool_call_id = h[i].tool_calls[k - i].id

(***************************************************************************)
(* C1: whenever the first response carries N >= 1 tool calls, the dispatch  *)
(* leaves exactly N tool-result turns after the assistant tool-call turn,   *)
(* the i-th with the i-th request's id.                                     *)
(***************************************************************************)
C1_CallResultPairing ==
    (event \in Handled /\ tool_calls # <<>>) =>
        /\ ResultsAfter(conversation_history, IssuedAt) = Len(tool_calls)
        /\ \A i \in 1..Len(tool_calls) : HasResult(i)

(***************************************************************************)
(* C2: a call whose argument payload cannot be decoded yields a tool-result *)
(* turn with an error text, every other call of the batch is dispatched and *)
(* has its own result turn, and the second backend call is issued.          *)
(***************************************************************************)
C2_MalformedArgsArePerCall ==
    \A i \in 1..Len(tool_calls) :
      (event \in Handled /\ json_loads(tool_calls[i].arguments).raised) =>
        /\ HasResult(i)
        /\ \A j \in 1..Len(tool_calls) :
             j # i /\ ~json_loads(tool_calls[j].arguments).raised =>
               /\ HasResult(j)
               /\ LookedUp(j)
        /\ backend_calls = 2

(***************************************************************************)
(* C3: at the moment of every backend call the store is paired: each        *)
(* assistant turn with tool calls is directly followed by one tool-result   *)
(* turn per call, in order and with matching ids, and no tool-result turn   *)
(* stands without its issuing assistant turn.                               *)
(***************************************************************************)
C3_StorePairedAtBackendCalls ==
    pc \in {"call1", "call2"} => StorePaired(conversation_history)

(***************************************************************************)
(* C4: when the first backend call raises, chat returns an error string,    *)
(* and the store is its pre-turn value plus the one user turn.              *)
(***************************************************************************)
C4_FirstCallFailure ==
    event = "backend_call_1_raised" =>
        /\ pc = "idle"
        /\ IsErrorString(chat_result)
        /\ conversation_history = Append(pre_history, UserTurn(Str(message)))
        /\ \A i \in (Len(pre_history) + 1)..Len(conversation_history) :
             conversation_history[i].role # "assistant"

\* C4 is reached after an earlier turn left something in the store.
C4_Witness ==
    /\ event = "backend_call_1_raised"
    /\ pre_history # <<>>

(***************************************************************************)
(* C5: when the second backend call raises, an error string is returned and *)
(* the failed turn leaves only the user's message in the store.             *)
(***************************************************************************)
C5_SecondCallFailure ==
    event = "backend_call_2_raised" =>
        /\ IsErrorString(chat_result)
        /\ conversation_history = Append(pre_history, UserTurn(Str(message)))

(***************************************************************************)
(* C6: process_message with an empty or whitespace-only message issues no   *)
(* backend call, leaves conversation_history as it is and returns the       *)
(* history it was given.                                                    *)
(***************************************************************************)
C6_EmptyInputIsNoOp ==
    [][(event' \in {"empty_input", "backend_call_1"} /\ IsBlank(message')
          /\ pc = "idle") =>
         /\ conversation_history' = conversation_history
         /\ history' = history
         /\ backend_calls' = backend_calls
         /\ messages' = messages
         /\ pc' = "idle"]_vars

\* A whitespace-only message was submitted to a store that holds turns.
C6_Witness ==
    /\ event = "empty_input"
    /\ message # <<>>
    /\ IsBlank(message)
    /\ conversation_history # <<>>
    /\ history # <<>>

(***************************************************************************)
(* C7: the snapshot sent to the backend is the system preamble followed by  *)
(* the last max_history stored turns (all of them when fewer are stored),   *)
(* for every max_history including 0, and the stored length is untouched.   *)
(***************************************************************************)
C7_HistoryBound ==
    pc \in {"call1", "call2"} =>
        /\ messages = <<SystemMessage>> \o LastTurns(conversation_history, max_history)
        /\ get_history_length = Len(conversation_history)

(***************************************************************************)
(* C8: a dispatched call naming a tool absent from the registry yields one  *)
(* tool-result turn with the 'not found' message, and every later call of   *)
(* the batch is still dispatched.                                           *)
(***************************************************************************)
C8_UnknownToolSafety ==
    \A i \in 1..Len(tool_calls) :
      (event \in Handled /\ LookedUp(i)
         /\ tool_calls[i].name \notin DOMAIN available_tools) =>
        /\ HasResult(i)
        /\ conversation_history[IssuedAt + i].content =
               "Tool '" \o tool_calls[i].name \o "' not found"
        /\ \A j \in (i + 1)..Len(tool_calls) : LookedUp(j)

(***************************************************************************)
(* C9: an exception raised by a tool implementation becomes that call's     *)
(* tool-result turn with an error message, the remaining calls are still    *)
(* dispatched and the second backend call is issued.                        *)
(***************************************************************************)
\* The i-th request reached its tool and the tool raised.
ToolRaised(i) ==
    /\ LookedUp(i)
    /\ tool_calls[i].name \in DOMAIN available_tools
    /\ CallFunction(tool_calls[i].name,
                    json_loads(tool_calls[i].arguments)).raised

C9_ToolFailureContained ==
    \A i \in 1..Len(tool_calls) :
      (event \in Handled /\ ToolRaised(i)) =>
        /\ HasResult(i)
        /\ conversation_history[IssuedAt + i].content =
               "Error executing tool: "
                 \o CallFunction(tool_calls[i].name,
                                 json_loads(tool_calls[i].arguments)).text
        /\ \A j \in (i + 1)..Len(tool_calls) : LookedUp(j)
        /\ backend_calls = 2

(***************************************************************************)
(* C10: a user turn issues at most two backend calls: one when the first    *)
(* response carries no tool calls, two when it carries one or more.        *)
(***************************************************************************)
C10_BackendCallCount ==
    /\ backend_calls <= 2
    /\ event \in TurnEnded =>
         /\ tool_calls = <<>> => backend_calls = 1
         /\ tool_calls # <<>> => backend_calls = 2

\* The steps that end a user turn in an error string.
Failed == {"backend_call_1_raised", "dispatch_raised", "backend_call_2_raised"}

IsPrefix(a, b) == Len(a) <= Len(b) /\ SubSeq(b, 1, Len(a)) = a

\* The turns the current user turn has added to the store.
Appended ==
    SubSeq(conversation_history, Len(pre_history) + 1, Len(conversation_history))

(***************************************************************************)
(* C11: the second backend call is issued without tools; when its response  *)
(* itself carries tool calls, none is dispatched and no further backend     *)
(* call is made: the response text becomes the final assistant turn and is  *)
(* returned.                                                                *)
(***************************************************************************)
C11_SingleToolRoundTrip ==
    /\ pc = "call2" => tools = None
    /\ event = "done_with_tools" =>
         /\ pc = "idle"
         /\ backend_calls = 2
         /\ Len(dispatched) = Len(tool_calls)
         /\ Len(Appended) = Len(tool_calls) + 3
         /\ conversation_history[Len(conversation_history)] =
                AssistantTurn(response.content, <<>>)
         /\ chat_result = response.content

\* The second response asked for a tool.
C11_Witness ==
    /\ event = "done_with_tools"
    /\ response.tool_calls # <<>>

(***************************************************************************)
(* C12: clear_history returns the number of turns stored right before the   *)
(* call and leaves get_history_length() = 0.                                *)
(***************************************************************************)
C12_ClearSemantics ==
    [][event' = "cleared" =>
         /\ clear_count' = get_history_length
         /\ get_history_length' = 0]_vars

\* A store of at least four turns was cleared.
C12_Witness ==
    /\ event = "cleared"
    /\ clear_count >= 4

(***************************************************************************)
(* C13: but for clear_history, every step leaves the earlier value of       *)
(* conversation_history as a prefix of the later one.                       *)
(***************************************************************************)
C13_AppendOnlyStore ==
    [][event' # "cleared" =>
         IsPrefix(conversation_history, conversation_history')]_vars

\* A turn ended after an earlier turn had failed at its second backend call.
C13_Witness ==
    /\ event \in TurnEnded
    /\ pre_history # <<>>
    /\ pre_history[Len(pre_history)].role = "tool"

(***************************************************************************)
(* C14: a user turn with use_tools false builds no function schema, sends   *)
(* no tools to the backend and appends no tool-result turn.                 *)
(***************************************************************************)
C14_ToolsDisabled ==
    ~use_tools =>
        /\ tools = None
        /\ tool_calls = <<>>
        /\ pc # "call2"
        /\ \A i \in 1..Len(Appended) : Appended[i].role # "tool"

\* The second of two turns with tools disabled has ended.
C14_Witness ==
    /\ ~use_tools
    /\ event = "done_without_tools"
    /\ Len(pre_history) = 2
    /\ \A i \in 1..Len(conversation_history) :
         conversation_history[i].role # "tool"

(***************************************************************************)
(* C15: when two submit_message calls run concurrently against ai_client,   *)
(* the turns one user turn appends to conversation_history are contiguous:  *)
(* no turn of the other call lies between them.                             *)
(***************************************************************************)
C15_SequentialTurns ==
    \A i, k \in DOMAIN owner :
        (i < k /\ owner[i].current /\ owner[k] = owner[i]) =>
            \A j \in i..k : owner[j] = owner[i]

\* The turns of conversation_history that session s appended, by position.
StoredBy(s) ==
    [i \in {j \in DOMAIN owner : owner[j].session = s} |->
       conversation_history[i]]

(***************************************************************************)
(* C16: the snapshot sent to the backend for one session never holds a      *)
(* message submitted in another session, and clearing the chat from one     *)
(* session leaves the turns another session stored as they are.             *)
(***************************************************************************)
C16_SessionIsolation ==
    /\ [](\A t \in Threads : \A s \in Threads \ {t} :
            thread[t].pc # "idle" =>
                \A i \in DOMAIN thread[t].messages :
                    ~ /\ thread[t].messages[i].role = "user"
                      /\ thread[t].messages[i].content = Str(SessionMessage(s)))
    /\ [][\A t \in Threads : \A s \in Threads \ {t} :
            CClear(t) => StoredBy(s)' = StoredBy(s)]_vars

(***************************************************************************)
(* C17: process_message ends every turn, whatever the backend and the       *)
(* tools did, with a textual assistant entry in the history it returns, and *)
(* after a failed turn the next message starts a turn with its first        *)
(* backend call.                                                            *)
(***************************************************************************)
C17_NoSessionCrash ==
    /\ [](/\ pc \in {"idle", "call1", "call2"}
          /\ event \in TurnEnded =>
               /\ pc = "idle"
               /\ chat_result # Pending
               /\ Len(history) >= 2
               /\ history[Len(history)] = ChatEntry("assistant", chat_result)
               /\ history[Len(history) - 1] = ChatEntry("user", Str(message)))
    /\ [][(event \in Failed /\ event' = "backend_call_1") =>
            /\ pc' = "call1"
            /\ backend_calls' = 1
            /\ conversation_history' =
                   Append(conversation_history, UserTurn(Str(message')))]_vars

\* A turn is at its first backend call right after a turn that failed at its
\* second.
C17_Witness ==
    /\ event = "backend_call_1"
    /\ pre_history # <<>>
    /\ pre_history[Len(pre_history)].role = "tool"

(***************************************************************************)
(* C19: when the first response requests N >= 1 tools and no backend call   *)
(* fails, the turn appends the user turn, one assistant turn with the N     *)
(* calls, the N tool-result turns and the final assistant turn, in this     *)
(* order, and all results are stored when the second call is issued.        *)
(***************************************************************************)
C19_TurnShapeWithTools ==
    /\ (pc = "call2" /\ tool_calls # <<>>) =>
         \A i \in 1..Len(tool_calls) : HasResult(i)
    /\ (event \in TurnEnded /\ tool_calls # <<>>
          /\ event # "backend_call_2_raised") =>
         /\ Len(Appended) = Len(tool_calls) + 3
         /\ Appended[1] = UserTurn(Str(message))
         /\ Appended[2] = AssistantTurn("", tool_calls)
         /\ \A i \in 1..Len(tool_calls) : HasResult(i)
         /\ Appended[Len(Appended)] = AssistantTurn(response.content, <<>>)

(***************************************************************************)
(* C20: when the first response carries no tool calls, the turn appends the *)
(* user turn and an assistant turn with the response text, issues no second *)
(* backend call and returns that text.                                      *)
(***************************************************************************)
C20_TurnShapeWithoutTools ==
    event = "done_without_tools" =>
        /\ response.tool_calls = <<>>
        /\ Appended = <<UserTurn(Str(message)),
                        AssistantTurn(response.content, <<>>)>>
        /\ backend_calls = 1
        /\ chat_result = response.content

\* Tools were offered and the response asked for none, in a later turn.
C20_Witness ==
    /\ event = "done_without_tools"
    /\ use_tools
    /\ pre_history # <<>>

(***************************************************************************)
(* C18: with a backend that always answers, a started user turn ends (done  *)
(* or a caught error): a turn in flight always has a backend answer to take *)
(* and every step of it moves it strictly closer to its end, so it stays in *)
(* no state forever; and the tools are dispatched only straight after the   *)
(* first backend call, never a second time in the turn.                     *)
(***************************************************************************)
\* Backend answers the turn still needs, at most.
Rank(p) == CASE p = "idle" -> 0 [] p = "call2" -> 1 [] p = "call1" -> 2

C18_TurnTermination ==
    /\ [](pc # "idle" => ENABLED (Respond1 \/ Respond2))
    /\ [][pc # "idle" => Rank(pc') < Rank(pc)]_vars
    /\ [][event' \in {"backend_call_2", "dispatch_raised"} =>
            (pc = "call1" /\ event = "backend_call_1")]_vars

\* A turn is suspended at its second backend call after two tool calls.
C18_Witness ==
    /\ pc = "call2"
    /\ Len(tool_calls) = 2

(***************************************************************************)
(* C21: when the first response requests divide with b = 0, divide returns  *)
(* its division-by-zero text without raising, that text is stored as the    *)
(* call's tool-result turn, the second backend call is issued, and when it  *)
(* returns a final assistant turn is appended.                              *)
(***************************************************************************)
DivZeroRequested ==
    /\ tool_calls # <<>>
    /\ \A i \in 1..Len(tool_calls) :
         /\ tool_calls[i].name = "divide"
         /\ tool_calls[i].arguments = ArgsDivZero

C21_DivisionByZero ==
    (DivZeroRequested /\ event \in Handled) =>
        /\ event # "dispatch_raised"
        /\ backend_calls = 2
        /\ \A i \in 1..Len(tool_calls) :
             /\ IssuedAt + i <= Len(conversation_history)
             /\ conversation_history[IssuedAt + i] =
                    ToolTurn(tool_calls[i].id, "divide",
                             "Error: Division by zero")
        /\ event = "done_with_tools" =>
             /\ Len(conversation_history) = IssuedAt + Len(tool_calls) + 1
             /\ conversation_history[Len(conversation_history)] =
                    AssistantTurn(chat_result, <<>>)

\* The turn of a divide by zero has ended with its final answer.
C21_Witness ==
    /\ DivZeroRequested
    /\ event = "done_with_tools"
    /\ conversation_history[IssuedAt + 1].content = "Error: Division by zero"

(***************************************************************************)
(* Vocabulary of the schema claims, read off the declarations themselves.   *)
(***************************************************************************)
\* The declaration is variadic: it has a leading "*".
IsVariadic(param) == chars(param)[1] = "*"

\* The declaration ends with the marker " (optional)".
IsOptional(param) ==
    LET cs == chars(param)
    IN  /\ Len(cs) >= Len(OptionalSuffix)
        /\ SubSeq(cs, Len(cs) - Len(OptionalSuffix) + 1, Len(cs))
              = OptionalSuffix

\* The declared name without its leading "*" and its trailing " (optional)".
StrippedName(param) ==
    LET cs == chars(param)
        first == IF IsVariadic(param) THEN 2 ELSE 1
        last == IF IsOptional(param)
                THEN Len(cs) - Len(OptionalSuffix) ELSE Len(cs)
    IN  Str(SubSeq(cs, first, last))

InSeq(x, seq) == \E i \in 1..Len(seq) : seq[i] = x

\* The parameters the registry declares for the i-th tool offered.
Declared(i) == available_tools[tools[i].function.name].parameters

(***************************************************************************)
(* C22: for every parameter the registry declares variadic, the schema sent *)
(* to the backend has one property "numbers", and its type is array.        *)
(***************************************************************************)
C22_VariadicSchemaType ==
    tools # None =>
        \A i \in 1..Len(tools) : \A p \in 1..Len(Declared(i)) :
            IsVariadic(Declared(i)[p]) =>
                LET properties == tools[i].function.parameters.properties
                IN  /\ DOMAIN properties = {"numbers"}
                    /\ properties["numbers"].type = "array"

(***************************************************************************)
(* C23: for every tool offered and every parameter it declares, the         *)
(* stripped name is a key of the schema's properties, and it is in the      *)
(* required list exactly when the declaration is neither optional nor       *)
(* variadic.                                                                *)
(***************************************************************************)
C23_RequiredFlag ==
    tools # None =>
        \A i \in 1..Len(tools) : \A p \in 1..Len(Declared(i)) :
            LET schema == tools[i].function.parameters
                param == Declared(i)[p]
            IN  /\ StrippedName(param) \in DOMAIN schema.properties
                /\ InSeq(StrippedName(param), schema.required)
                     <=> (~IsOptional(param) /\ ~IsVariadic(param))

\* A turn with tools enabled waits for its first answer with the schema of
\* divide, which declares a, b and an optional precision.
C23_Witness ==
    /\ pc = "call1"
    /\ tools # None
    /\ \E i \in 1..Len(tools) :
         /\ tools[i].function.name = "divide"
         /\ tools[i].function.parameters.required = <<"a", "b">>
         /\ "precision" \in DOMAIN tools[i].function.parameters.properties

(***************************************************************************)
(* C24: the schema has one function per registered tool, in the registry's  *)
(* insertion order, every non-variadic parameter is typed number when its   *)
(* stripped name is one of a, b, value, n, precision and string otherwise,  *)
(* and building it leaves the registry as it is and the store with nothing  *)
(* but the turn's user message appended.                                    *)
(***************************************************************************)
C24_SchemaTranslation ==
    /\ [](tools # None =>
            /\ Len(tools) = Len(ToolOrder)
            /\ \A i \in 1..Len(tools) :
                 /\ tools[i].type = "function"
                 /\ tools[i].function.name = ToolOrder[i]
                 /\ tools[i].function.description =
                        available_tools[ToolOrder[i]].description
                 /\ \A p \in 1..Len(Declared(i)) :
                      ~IsVariadic(Declared(i)[p]) =>
                        tools[i].function.parameters
                          .properties[StrippedName(Declared(i)[p])].type =
                            IF StrippedName(Declared(i)[p])
                                 \in {"a", "b", "value", "n", "precision"}
                            THEN "number" ELSE "string")
    /\ [][(tools = None /\ tools' # None) =>
            /\ available_tools' = available_tools
            /\ conversation_history' =
                   Append(conversation_history, UserTurn(Str(message')))]_vars

\* The schema is built in a turn that follows an earlier one.
C24_Witness ==
    /\ pc = "call1"
    /\ tools # None
    /\ Len(tools) = 10
    /\ Len(conversation_history) >= 3

(***************************************************************************)
(* C25: a found tool named add or multiply is invoked with the elements of  *)
(* the call's "numbers" array as positional arguments and no keyword; every *)
(* other found tool is invoked with the decoded arguments by name and no    *)
(* positional argument.                                                     *)
(***************************************************************************)
C25_ArgumentPassing ==
    invocation.outcome = "invoked" =>
        LET decoded == json_loads(dispatch_call.arguments)
        IN  IF dispatch_call.name \in {"add", "multiply"}
            THEN /\ DOMAIN invocation.keywords = {}
                 /\ invocation.positional =
                        IF "numbers" \in decoded.keys
                        THEN decoded.numbers ELSE <<>>
            ELSE /\ invocation.positional = <<>>
                 /\ DOMAIN invocation.keywords = decoded.keys
                 /\ \A k \in decoded.keys :
                      invocation.keywords[k] = decoded[k]

\* multiply has been invoked with 1 and 2.
C25_Witness ==
    /\ invocation.outcome = "invoked"
    /\ dispatch_call.name = "multiply"
    /\ invocation.positional = <<1, 2>>

C26_RegistryReadOnly ==
    /\ [][available_tools' = available_tools]_vars
    /\ [](/\ DOMAIN available_tools = {ToolOrder[i] : i \in 1..Len(ToolOrder)}
          /\ \A n \in DOMAIN available_tools :
               available_tools[n].parameters = RegisterTools[n].parameters
          /\ get_stats.tools = Len(ToolOrder))

\* Tools were dispatched, and the store was cleared after that turn.
C26_Witness ==
    /\ event = "cleared"
    /\ clear_count >= 3
    /\ "add" \in DOMAIN available_tools

\* The k-th message of msgs is a tool-result turn of the group of an
\* assistant turn of msgs: that turn precedes it, only results stand between.
Preceded(msgs, k) ==
    \E i \in 1..(k - 1) :
        /\ msgs[i].tool_calls # <<>>
        /\ k - i <= Len(msgs[i].tool_calls)
        /\ \A j \in (i + 1)..k : msgs[j].role = "tool"
        /\ msgs[k].tool_call_id = msgs[i].tool_calls[k - i].id

(***************************************************************************)
(* C28, as claimed: in every snapshot sent to the backend each tool-result  *)
(* turn is preceded, within the snapshot, by the assistant turn that issued *)
(* its call.                                                                *)
(***************************************************************************)
C28_SnapshotWindowIntegrity ==
    pc \in {"call1", "call2"} =>
        \A k \in 1..Len(messages) :
            messages[k].role = "tool" => Preceded(messages, k)

(***************************************************************************)
(* C28, amended: in every snapshot sent to the backend each tool-result     *)
(* turn is preceded, within the snapshot, by the assistant turn that issued *)
(* its call, except for the tool-result turns that stand directly after the *)
(* system preamble: the window of max_history turns can begin inside a      *)
(* group, and only there can a group be cut.                                *)
(***************************************************************************)
C28_OnlyLeadingGroupCut ==
    pc \in {"call1", "call2"} =>
        \A k \in 1..Len(messages) :
            messages[k].role = "tool" =>
                \/ Preceded(messages, k)
                \/ \A j \in 2..k : messages[j].role = "tool"

\* The second call is sent a snapshot that ends with a complete group.
C28_Witness ==
    /\ pc = "call2"
    /\ Len(tool_calls) = 2
    /\ messages[Len(messages)].role = "tool"
    /\ Preceded(messages, Len(messages))

(***************************************************************************)
(* C29: in every reachable state, a clear during a suspended user turn      *)
(* included, conversation_history is empty or begins with a user turn, and  *)
(* every assistant or tool-result turn in it follows the stored user turn   *)
(* of the same user turn.                                                   *)
(***************************************************************************)
C29_StoreStartsWithUserTurn ==
    /\ conversation_history = <<>> \/ conversation_history[1].role = "user"
    /\ \A i \in DOMAIN owner :
         conversation_history[i].role # "user" =>
            \E j \in 1..(i - 1) :
                /\ conversation_history[j].role = "user"
                /\ owner[j] = owner[i]

(***************************************************************************)
(* C30: a chat_with_context or clear_conversation call for one conversation *)
(* id leaves the stored history of every other conversation id as it is,    *)
(* whatever the interleaving of the calls.                                  *)
(***************************************************************************)
C30_ServerSessionIndependence ==
    [][\A t \in ServerTasks : \A a \in ConversationIds :
         (\/ ChatWithContext(t, a)
          \/ ServerClear(t, a)
          \/ /\ server_task[t].conversation_id = a
             /\ \/ \E x \in ServerReplies(t) : ChatReturns(t, x)
                \/ \E e \in BackendErrors : ChatRaises(t, e)) =>
            \A b \in ConversationIds \ {a} :
                server_history'[b] = server_history[b]]_vars

\* Conversation A has been cleared while B holds a question and its reply.
C30_Witness ==
    /\ \E t \in ServerTasks : server_result[t] = ClearedText("A", 2)
    /\ ~Has(server_history, "A")
    /\ Len(server_history["B"]) = 3

(***************************************************************************)
(* C31: for every conversation id, whatever calls failed or overlapped, the *)
(* stored history is one system message followed by strictly alternating    *)
(* user and assistant messages, each assistant message the reply to the     *)
(* user message directly before it.                                         *)
(***************************************************************************)
Alternates(h) ==
    /\ h[1] = ServerSystemMessage
    /\ \A i \in 2..Len(h) :
         IF i % 2 = 0
         THEN h[i].role = "user"
         ELSE /\ h[i].role = "assistant"
              /\ h[i].content = ReplyTo(h[i - 1].content)

NonSystem(h) == Cardinality({i \in DOMAIN h : h[i].role # "system"})

C32_ServerClearLifecycle ==
    [][\A t \in ServerTasks : \A id \in ConversationIds :
         /\ ServerClear(t, id) =>
               /\ ~Has(server_history', id)
               /\ server_result'[t] =
                     IF Has(server_history, id)
                     THEN ClearedText(id, NonSystem(server_history[id]))
                     ELSE NotFoundText(id)
         /\ (ChatWithContext(t, id) /\ ~Has(server_history, id)) =>
               server_history'[id] =
                   <<ServerSystemMessage,
                     Message("user", server_task'[t].message)>>]_vars

\* Task 2 cleared conversation A with a question and its reply stored, and
\* the clear of A that task 1 made after it found no conversation.
C32_Witness ==
    /\ server_result[2] = ClearedText("A", 2)
    /\ server_result[1] = NotFoundText("A")
    /\ ~Has(server_history, "A")

(***************************************************************************)
(* C33: after any sequence of calculator tool calls, calculation_history    *)
(* holds at most 100 entries and is the most recent min(k, 100) recorded    *)
(* calculations in the order they were performed, k being the number        *)
(* recorded since the last clear_history; and clear_history reports the     *)
(* count the history had and leaves it empty.                               *)
(***************************************************************************)
MostRecent(recorded, n) ==
    LET k == Len(recorded)
        m == IF k < n THEN k ELSE n
    IN  [i \in 1..m |-> recorded[k - m + i]]

C33_HistoryBound ==
    /\ [](/\ Len(calculation_history) <= 100
          /\ calculation_history = MostRecent(calc_recorded, 100))
    /\ [][calc_result'.name = "clear_history" =>
            /\ calc_result'.text =
                  Text("Cleared", " " \o ToString(Len(calculation_history))
                                    \o " calculations from history.")
            /\ calculation_history' = <<>>]_vars

\* Two calculations more than the history keeps have been recorded.
C33_Witness ==
    /\ Len(calc_recorded) = 102
    /\ Len(calculation_history) = 100
    /\ calculation_history[100] = calc_recorded[102]

(***************************************************************************)
(* C34: the history tool called with a limit L >= 0 on a history that is    *)
(* not empty lists exactly the min(L, len) most recent calculations, the    *)
(* oldest of them first, and leaves calculation_history as it was.          *)
(***************************************************************************)
C34_HistoryLimit ==
    [][\A L \in HistoryLimits :
         (/\ L >= 0
          /\ calculation_history # <<>>
          /\ CallTool("history", [keys |-> {"limit"}, limit |-> PyInt(L)])) =>
            /\ calc_result'.text =
                  HistoryText(MostRecent(calculation_history, L))
            /\ calculation_history' = calculation_history]_vars

(***************************************************************************)
(* C35: call_tool of the calculator server never raises; for an unknown     *)
(* tool name, a missing required argument, a division by zero, a negative   *)
(* square root or a factorial argument outside 0..20 it returns one text    *)
(* that starts with "Error", and calculation_history is the same before     *)
(* and after the call.                                                      *)
(***************************************************************************)
C35_ErrorsAreTextual ==
    /\ [](~calc_result.raised)
    /\ [][\A c \in ErrorCalls :
            CallTool(c.name, c.arguments) =>
               /\ calc_result'.text.first = "Error"
               /\ calculation_history' = calculation_history]_vars

\* A factorial call was answered with an error text while two calculations
\* are stored.
C35_Witness ==
    /\ calc_result.name = "factorial"
    /\ calc_result.text.first = "Error"
    /\ Len(calculation_history) = 2

(***************************************************************************)
(* C36: after start_server(name) the server is reported by                  *)
(* is_server_running(name) and by get_available_servers(); after a          *)
(* stop_server(name) that follows, it is reported by neither.               *)
(***************************************************************************)
Listed(name) ==
    \E i \in DOMAIN get_available_servers : get_available_servers[i] = name

C36_ServerLifecycle ==
    /\ mcp_event.op = "start_server" =>
          /\ is_server_running(mcp_event.name)
          /\ Listed(mcp_event.name)
    /\ mcp_event.op = "stop_server" =>
          /\ ~is_server_running(mcp_event.name)
          /\ ~Listed(mcp_event.name)

(***************************************************************************)
(* C37: for every filename, read_file returns the contents of a file only   *)
(* when the resolved path lies inside the base directory; for a path that   *)
(* resolves outside it, a sibling directory whose name begins with the base *)
(* directory's name included, it returns the access-denied text and reads   *)
(* nothing.                                                                 *)
(***************************************************************************)
Inside(path, directory) ==
    /\ Len(directory) <= Len(path)
    /\ \A i \in DOMAIN directory : path[i] = directory[i]

Requested == resolve(joinpath(base_path, fs_filename))

C37_FileConfinement ==
    fs_filename.parts # <<>> =>
       /\ fs_result.file # NoFile => Inside(Requested, base_path)
       /\ ~Inside(Requested, base_path) =>
             /\ fs_result.text = AccessDenied
             /\ fs_result.file = NoFile

=============================================================================
